---- MODULE Spec2Model ----
(***************************************************************************)
(* Live bib tracking leaderboard: the leaderboard store and race clock of  *)
(* src/src/api_backend/local_server.py, the tracker state, finish-line     *)
(* check and bib vote of src/src/image_processor/video_inference.py, and   *)
(* the WebSocket ConnectionManager of both servers.                        *)
(*                                                                         *)
(* Times: wall-clock instants are whole seconds, race times milliseconds.  *)
(* Confidences are hundredths (0.4 is 40).  A Python None (or an absent    *)
(* dict key read with .get) is the empty tuple, a present value v is <<v>>.*)
(***************************************************************************)
EXTENDS Integers, Sequences, FiniteSets, TLC

VARIABLES
    race_results,       \* local_server.py:174  list of result dicts
    original_roster,    \* local_server.py:179  bibNumber -> roster dict
    race_clock_state,   \* local_server.py:183
    now,                \* time.time(), in seconds
    lastCall,           \* the last handler call: its name, result and broadcast
    track_history,      \* video_inference.py:68  tracker id -> history dict
    has_callback,       \* video_inference.py:167 result_callback is not None
    scheduled,          \* payloads handed to run_coroutine_threadsafe, in order
    crossings,          \* log of the finish transitions taken
    lingered,           \* trackers seen at or past the line after they finished
    resolved,           \* the last result of determine_final_bibs
    active_connections, \* ConnectionManager.active_connections
    ws_open,            \* websockets whose peer is still there
    ws_used,            \* websockets that have connected at some time
    bcast,              \* the broadcast coroutines in flight
    uploads,            \* upload_roster calls waiting at await file.read()
    stream,             \* local_server.py:290-384  the frame loop of generate_frames
    client              \* the result list a subscriber holds, None with no subscriber

storeVars == <<race_results, original_roster, race_clock_state, lastCall>>
trackVars == <<track_history, has_callback, scheduled, crossings, lingered, resolved>>
hubVars == <<active_connections, ws_open, ws_used, bcast>>
vars == <<storeVars, now, trackVars, hubVars, uploads, stream, client>>

----------------------------------------------------------------------------
(* Bounds of the model *)

MaxNow == 1          \* wall-clock seconds the model lets pass
MaxEntries == 2      \* entries the result list may grow to by creation
MaxOrder == 2        \* items of a reorder request
MaxRows == 2         \* rows of a roster batch
MaxSamples == 3      \* OCR reads kept over all trackers
MaxPersons == 2      \* tracked persons in one frame
MaxCalls == 3        \* bib resolutions remembered since the last new read
MaxSockets == 3      \* websockets that connect over a run
MaxPublish == 1      \* broadcasts in flight at the same time
MaxUploads == 1      \* roster uploads waiting for their file at the same time
MaxScheduled == 1    \* finish payloads waiting on the event loop
MaxNotified == 2     \* finish notifications begun over a run

----------------------------------------------------------------------------
(* Optional values *)

None == <<>>
Some(v) == <<v>>
IsNone(o) == o = <<>>
NotNone(o) == o # <<>>
Val(o) == o[1]

Range(s) == {s[i] : i \in DOMAIN s}
Front(s) == SubSeq(s, 1, Len(s) - 1)
Last(s) == s[Len(s)]

RECURSIVE SeqsUpTo(_, _)
SeqsUpTo(S, n) ==
    IF n = 0 THEN {<<>>}
    ELSE LET shorter == SeqsUpTo(S, n - 1)
         IN shorter \cup {Append(s, e) : s \in {t \in shorter : Len(t) = n - 1}, e \in S}

Min(a, b) == IF a <= b THEN a ELSE b

----------------------------------------------------------------------------
(* Strings of the model.  A bib number is a TLA+ string; the texts built   *)
(* by f-strings and the results of str.upper / str.strip / int() are given *)
(* for the strings the model draws.                                        *)

Bibs == {"123", "128"}

\* int(x["bibNumber"]) of the roster sort key (local_server.py:577-581):
\* <<0, n>> for a numeric bib, <<1, 0>> (float('inf')) for any other
BibSortKey(b) ==
    CASE b = "123" -> <<0, 123>>
      [] b = "128" -> <<0, 128>>
      [] b = "12"  -> <<0, 12>>
      [] OTHER     -> <<1, 0>>

\* f"Racer #{bib_number}" (local_server.py:742, 829)
DefaultRacerName(b) == "Racer #" \o b

\* str(g).upper() followed by the M/W table (local_server.py:750-756, 792-798)
UpperCase(g) ==
    CASE g = "m" -> "M"
      [] g = "f" -> "F"
      [] g = "female" -> "FEMALE"
      [] g = "x" -> "X"
      [] OTHER -> g

NormalizeGender(g) ==
    LET u == UpperCase(g)
    IN IF u \in {"M", "MALE", "MAN"} THEN "M"
       ELSE IF u \in {"W", "F", "FEMALE", "WOMAN"} THEN "W"
       ELSE u

\* str(s).strip()
Strip(s) ==
    CASE s = " Red " -> "Red"
      [] s = " Ann"  -> "Ann"
      [] OTHER -> s

----------------------------------------------------------------------------
(* time_string_to_milliseconds (local_server.py:202-216).  A string is a   *)
(* sequence of one-character strings.                                      *)

Digits == {"0", "1", "2", "3", "4", "5", "6", "7", "8", "9"}

DigitVal(c) ==
    CASE c = "0" -> 0 [] c = "1" -> 1 [] c = "2" -> 2 [] c = "3" -> 3
      [] c = "4" -> 4 [] c = "5" -> 5 [] c = "6" -> 6 [] c = "7" -> 7
      [] c = "8" -> 8 [] c = "9" -> 9

CountChar(s, c) == Cardinality({i \in DOMAIN s : s[i] = c})
IndexOf(s, c) == CHOOSE i \in DOMAIN s : s[i] = c /\ \A j \in 1..(i - 1) : s[j] # c

\* str.split(sep) when it yields exactly two parts
SplitLeft(s, c) == SubSeq(s, 1, IndexOf(s, c) - 1)
SplitRight(s, c) == SubSeq(s, IndexOf(s, c) + 1, Len(s))

RECURSIVE TrimSpaces(_)
TrimSpaces(s) ==
    IF s = <<>> THEN s
    ELSE IF Head(s) = " " THEN TrimSpaces(Tail(s))
    ELSE IF Last(s) = " " THEN TrimSpaces(Front(s))
    ELSE s

Unsigned(s) == IF s # <<>> /\ Head(s) \in {"+", "-"} THEN Tail(s) ELSE s

\* int(s) raises ValueError unless s is [space]* [sign] digit+ [space]*
IntParses(s) ==
    LET u == Unsigned(TrimSpaces(s))
    IN u # <<>> /\ \A i \in DOMAIN u : u[i] \in Digits

RECURSIVE DigitsValue(_)
DigitsValue(u) == IF u = <<>> THEN 0 ELSE 10 * DigitsValue(Front(u)) + DigitVal(Last(u))

IntValue(s) ==
    LET t == TrimSpaces(s)
    IN IF Head(t) = "-" THEN 0 - DigitsValue(Unsigned(t)) ELSE DigitsValue(Unsigned(t))

time_string_to_milliseconds(time_str) ==
    IF CountChar(time_str, ":") # 1 THEN -1
    ELSE LET minutes == SplitLeft(time_str, ":")
             seconds_ms == SplitRight(time_str, ":")
         IN IF CountChar(seconds_ms, ".") # 1 THEN -1
            ELSE LET seconds == SplitLeft(seconds_ms, ".")
                     centiseconds == SplitRight(seconds_ms, ".")
                 IN IF IntParses(minutes) /\ IntParses(seconds) /\ IntParses(centiseconds)
                    THEN IntValue(minutes) * 60 * 1000 + IntValue(seconds) * 1000
                         + IntValue(centiseconds) * 10
                    ELSE -1

----------------------------------------------------------------------------
(* The result list.  A dict of race_results is a record; obj is the        *)
(* identity of the dict object: two list slots with the same obj are the   *)
(* same dict, and an in-place write to one shows in the other.             *)

Entry(o, i, b, n, ft, r, g, t) ==
    [obj |-> o, id |-> i, bibNumber |-> b, racerName |-> n, finishTime |-> ft,
     rank |-> r, gender |-> g, team |-> t]

\* Object identities are renamed to the first list position holding the object.
FirstSlot(rr, o) == CHOOSE i \in DOMAIN rr : rr[i].obj = o /\ \A j \in 1..(i - 1) : rr[j].obj # o
Canon(rr) == [i \in DOMAIN rr |-> [rr[i] EXCEPT !.obj = FirstSlot(rr, rr[i].obj)]]
FreshObj(rr) == Len(rr) + 1

\* d[f] = v on the dict object o
WriteObj(rr, o, f, v) ==
    [i \in DOMAIN rr |-> IF rr[i].obj = o THEN [rr[i] EXCEPT ![f] = v] ELSE rr[i]]

HasIndex(rr, P(_)) == \E i \in DOMAIN rr : P(rr[i])
FirstIndex(rr, P(_)) == CHOOSE i \in DOMAIN rr : P(rr[i]) /\ \A j \in 1..(i - 1) : ~P(rr[j])

SelectEntries(rr, P(_)) == SelectSeq(rr, P)

IsFinished(r) == NotNone(r.finishTime)
FinishedOf(rr) == SelectSeq(rr, IsFinished)

\* list.sort(key=lambda x: x["finishTime"]): stable, ascending
InsertByFinishTime(s, e) ==
    LET p == Cardinality({i \in DOMAIN s : Val(s[i].finishTime) <= Val(e.finishTime)})
    IN SubSeq(s, 1, p) \o <<e>> \o SubSeq(s, p + 1, Len(s))

RECURSIVE SortByFinishTime(_)
SortByFinishTime(s) ==
    IF s = <<>> THEN <<>> ELSE InsertByFinishTime(SortByFinishTime(Front(s)), Last(s))

\* local_server.py:706-711: rank k goes to the first dict whose bibNumber is
\* that of the k-th finished racer
RECURSIVE AssignRanks(_, _, _)
AssignRanks(rr, finished, k) ==
    IF k > Len(finished) THEN rr
    ELSE LET SameBib(r) == r.bibNumber = finished[k].bibNumber
             j == FirstIndex(rr, SameBib)
         IN AssignRanks(WriteObj(rr, rr[j].obj, "rank", Some(k)), finished, k + 1)

----------------------------------------------------------------------------
(* Race clock (local_server.py:183-187, 943-1038) *)

ClockInit == [raceStartTime |-> None, status |-> "stopped", offset |-> 0]

\* the status test left out
ClockIsRunning_NoStatus(clock) == NotNone(clock.raceStartTime)

\* local_server.py:641
ClockIsRunning(clock) == NotNone(clock.raceStartTime) /\ clock.status = "running"

\* the manual offset left out
OfficialFinishTime_NoOffset(wall_clock_time, clock) ==
    (wall_clock_time - Val(clock.raceStartTime)) * 1000

\* local_server.py:643-646
OfficialFinishTime(wall_clock_time, clock) ==
    (wall_clock_time - Val(clock.raceStartTime)) * 1000 + clock.offset

Call(op, ok, event) ==
    [op |-> op, ok |-> ok, event |-> event, created |-> 0, updated |-> 0, errors |-> 0,
     rows |-> <<>>]

----------------------------------------------------------------------------
(* POST /api/results: update_finish_time (local_server.py:617-773).        *)
(* finish_data is a record of optional keys; finishTime, when present, is  *)
(* [isStr, num, str]: a number or a string.                                *)

FinishData(b, wall, ft, n, g, t) ==
    [bibNumber |-> b, wallClockTime |-> wall, finishTime |-> ft,
     racerName |-> n, gender |-> g, team |-> t]

NumTime(v) == [isStr |-> FALSE, num |-> v, str |-> <<>>]
StrTime(s) == [isStr |-> TRUE, num |-> 0, str |-> s]

\* local_server.py:634-670: [ok, time]; ok is FALSE where the handler returns early
ResolveFinishTime(finish_data, clock) ==
    IF NotNone(finish_data.wallClockTime)
    THEN IF ClockIsRunning(clock)
         THEN [ok |-> TRUE, time |-> OfficialFinishTime(Val(finish_data.wallClockTime), clock)]
         ELSE [ok |-> FALSE, time |-> 0]
    ELSE IF NotNone(finish_data.finishTime)
    THEN LET raw == Val(finish_data.finishTime)
         IN IF raw.isStr
            THEN LET time_ms == time_string_to_milliseconds(raw.str)
                 IN IF time_ms < 0 THEN [ok |-> FALSE, time |-> 0]
                    ELSE [ok |-> TRUE, time |-> time_ms]
            ELSE [ok |-> TRUE, time |-> raw.num]
    ELSE [ok |-> FALSE, time |-> 0]

\* a merge that keeps a finish time already recorded
MergeFinish_KeepFirst(rr, racer_index, finish_time) ==
    LET timed == IF NotNone(rr[racer_index].finishTime) THEN rr
                 ELSE WriteObj(rr, rr[racer_index].obj, "finishTime", Some(finish_time))
        finished_racers == SortByFinishTime(FinishedOf(timed))
    IN AssignRanks(timed, finished_racers, 1)

\* local_server.py:697-711: the racer at racer_index gets the time, then every
\* finished racer is ranked by finish time
MergeFinish(rr, racer_index, finish_time) ==
    LET timed == WriteObj(rr, rr[racer_index].obj, "finishTime", Some(finish_time))
        finished_racers == SortByFinishTime(FinishedOf(timed))
    IN AssignRanks(timed, finished_racers, 1)

\* a new entry ranked by the length of the list
NewFinisher_RankByLength(rr, bib_number, finish_time, finish_data) ==
    Entry(FreshObj(rr), bib_number, bib_number,
          IF NotNone(finish_data.racerName) THEN Val(finish_data.racerName)
          ELSE DefaultRacerName(bib_number),
          Some(finish_time),
          Some(Len(rr) + 1),
          IF NotNone(finish_data.gender) /\ Val(finish_data.gender) # ""
          THEN Some(NormalizeGender(Val(finish_data.gender))) ELSE None,
          IF NotNone(finish_data.team) /\ Val(finish_data.team) # ""
          THEN Some(Strip(Val(finish_data.team))) ELSE None)

\* local_server.py:733-764: the entry appended for a bib that is not in the list
NewFinisher(rr, bib_number, finish_time, finish_data) ==
    Entry(FreshObj(rr), bib_number, bib_number,
          IF NotNone(finish_data.racerName) THEN Val(finish_data.racerName)
          ELSE DefaultRacerName(bib_number),
          Some(finish_time),
          Some(Len(FinishedOf(rr)) + 1),
          IF NotNone(finish_data.gender) /\ Val(finish_data.gender) # ""
          THEN Some(NormalizeGender(Val(finish_data.gender))) ELSE None,
          IF NotNone(finish_data.team) /\ Val(finish_data.team) # ""
          THEN Some(Strip(Val(finish_data.team))) ELSE None)

\* local_server.py:676-688
BibIndex(rr, bib_number) ==
    LET SameBib(r) == r.bibNumber = bib_number
    IN IF HasIndex(rr, SameBib) THEN FirstIndex(rr, SameBib) ELSE 0

\* local_server.py:438-447: the finished entries in finish-time order
get_results(rr) == SortByFinishTime(FinishedOf(rr))

\* json.dumps of a dict: its fields without its identity
Json(e) == [e EXCEPT !.obj = 0]

\* the subscriber puts the entry in the place of the one with its id, or at
\* the end of its list when it has none
Upsert(copy, e) ==
    IF \E i \in DOMAIN copy : copy[i].id = e.id
    THEN [i \in DOMAIN copy |-> IF copy[i].id = e.id THEN e ELSE copy[i]]
    ELSE Append(copy, e)

\* what the handler's broadcast (event, with the entry at place k of the new
\* list as its data) makes of the subscriber's list: "add" and "update"
\* carry one entry, "reload" makes the subscriber fetch GET /api/results
Deliver(cl, event, rr, k) ==
    IF IsNone(cl) THEN cl
    ELSE IF event = "reload"
    THEN Some([i \in DOMAIN get_results(rr) |-> Json(get_results(rr)[i])])
    ELSE IF event \in {"add", "update"} THEN Some(Upsert(Val(cl), Json(rr[k])))
    ELSE cl

\* the handler's effect on the store
RecordFinish(finish_data) ==
    LET res == ResolveFinishTime(finish_data, race_clock_state)
        bib_number == Val(finish_data.bibNumber)
        racer_index == BibIndex(race_results, bib_number)
    IN /\ IF IsNone(finish_data.bibNumber) \/ ~res.ok
          THEN /\ race_results' = race_results
               /\ lastCall' = Call("update_finish_time", FALSE, "none")
          ELSE IF racer_index # 0
          THEN /\ race_results' = Canon(MergeFinish(race_results, racer_index, res.time))
               /\ lastCall' = Call("update_finish_time", TRUE, "update")
          ELSE /\ Len(race_results) < MaxEntries
               /\ race_results' = Canon(Append(race_results,
                                        NewFinisher(race_results, bib_number, res.time, finish_data)))
               /\ lastCall' = Call("update_finish_time", TRUE, "add")
       /\ client' = Deliver(client, lastCall'.event, race_results',
                            IF racer_index # 0 THEN racer_index ELSE Len(race_results'))
       /\ UNCHANGED <<original_roster, race_clock_state>>

\* the handler called by an HTTP request
update_finish_time(finish_data) ==
    /\ RecordFinish(finish_data)
    /\ UNCHANGED <<now, trackVars, hubVars, uploads, stream>>

----------------------------------------------------------------------------
(* DELETE /api/results/{id} and POST /api/reorder (local_server.py:887-932) *)

IdIndex(rr, finisher_id) ==
    LET SameId(r) == r.id = finisher_id
    IN IF HasIndex(rr, SameId) THEN FirstIndex(rr, SameId) ELSE 0

RemoveAt(rr, i) == SubSeq(rr, 1, i - 1) \o SubSeq(rr, i + 1, Len(rr))

\* a delete that publishes a reload whether or not the id was found
delete_finisher_AlwaysReload(finisher_id) ==
    LET i == IdIndex(race_results, finisher_id)
    IN /\ IF i # 0
          THEN /\ race_results' = Canon(RemoveAt(race_results, i))
               /\ lastCall' = Call("delete_finisher", TRUE, "reload")
          ELSE /\ race_results' = race_results
               /\ lastCall' = Call("delete_finisher", FALSE, "reload")
       /\ client' = Deliver(client, lastCall'.event, race_results', 0)
       /\ UNCHANGED <<original_roster, race_clock_state, now, trackVars, hubVars, uploads, stream>>

\* a delete that takes the racer out of the roster too
delete_finisher_FromRoster(finisher_id) ==
    LET i == IdIndex(race_results, finisher_id)
    IN /\ IF i # 0
          THEN /\ race_results' = Canon(RemoveAt(race_results, i))
               /\ original_roster' =
                     [b \in DOMAIN original_roster \ {race_results[i].bibNumber} |->
                         original_roster[b]]
               /\ lastCall' = Call("delete_finisher", TRUE, "reload")
          ELSE /\ race_results' = race_results
               /\ original_roster' = original_roster
               /\ lastCall' = Call("delete_finisher", FALSE, "none")
       /\ client' = Deliver(client, lastCall'.event, race_results', 0)
       /\ UNCHANGED <<race_clock_state, now, trackVars, hubVars, uploads, stream>>

delete_finisher(finisher_id) ==
    LET i == IdIndex(race_results, finisher_id)
    IN /\ IF i # 0
          THEN /\ race_results' = Canon(RemoveAt(race_results, i))
               /\ lastCall' = Call("delete_finisher", TRUE, "reload")
          ELSE /\ race_results' = race_results
               /\ lastCall' = Call("delete_finisher", FALSE, "none")
       /\ client' = Deliver(client, lastCall'.event, race_results', 0)
       /\ UNCHANGED <<original_roster, race_clock_state, now, trackVars, hubVars, uploads, stream>>

OrderItem(i, r) == [id |-> i, rank |-> r]

\* local_server.py:913-923: the dicts are written in place while the list of
\* picked dicts (their identities) is built
RECURSIVE ReorderLoop(_, _, _, _)
ReorderLoop(rr, new_order, k, picked) ==
    IF k > Len(new_order) THEN [rr |-> rr, picked |-> picked]
    ELSE LET i == IdIndex(rr, new_order[k].id)
         IN IF i = 0 THEN ReorderLoop(rr, new_order, k + 1, picked)
            ELSE ReorderLoop(WriteObj(rr, rr[i].obj, "rank", Some(new_order[k].rank)),
                             new_order, k + 1, Append(picked, rr[i].obj))

Reordered(rr, new_order) ==
    LET done == ReorderLoop(rr, new_order, 1, <<>>)
    IN [k \in DOMAIN done.picked |-> done.rr[FirstSlot(done.rr, done.picked[k])]]

reorder_finishers(new_order) ==
    /\ race_results' = Canon(Reordered(race_results, new_order))
    /\ lastCall' = Call("reorder_finishers", TRUE, "reload")
    /\ client' = Deliver(client, lastCall'.event, race_results', 0)
    /\ UNCHANGED <<original_roster, race_clock_state, now, trackVars, hubVars, uploads, stream>>

----------------------------------------------------------------------------
(* PUT /api/results/{id}: update_finisher (local_server.py:776-884).       *)
(* The patch is a record of optional keys.                                 *)

Patch(b, n, ft, r, g, t) ==
    [bibNumber |-> b, racerName |-> n, finishTime |-> ft, rank |-> r, gender |-> g, team |-> t]

RosterEntry(b, n, g, t) == [bibNumber |-> b, racerName |-> n, gender |-> g, team |-> t]

\* local_server.py:783-801: the patch after the time string is converted and
\* gender and team are normalised
NormalizedPatch(patch) ==
    [patch EXCEPT
       !.finishTime = IF NotNone(patch.finishTime) /\ Val(patch.finishTime).isStr
                      THEN Some(NumTime(time_string_to_milliseconds(Val(patch.finishTime).str)))
                      ELSE patch.finishTime,
       !.gender = IF NotNone(patch.gender) THEN Some(NormalizeGender(Val(patch.gender)))
                  ELSE patch.gender,
       !.team = IF NotNone(patch.team) /\ Val(patch.team) # "" THEN Some(Strip(Val(patch.team)))
                ELSE patch.team]

\* local_server.py:783-786
PatchTimeInvalid(patch) ==
    /\ NotNone(patch.finishTime)
    /\ Val(patch.finishTime).isStr
    /\ time_string_to_milliseconds(Val(patch.finishTime).str) < 0

PatchedTime(old, p) == IF NotNone(p.finishTime) THEN Some(Val(p.finishTime).num) ELSE old
PatchedOpt(old, new) == IF NotNone(new) THEN new ELSE old

\* local_server.py:826-849: roster identity, the finisher's time and rank, then
\* every non-null key of the patch (racerName only when not blank)
MergedData(rr, finisher, finisher_id, new_bib, roster_racer, p) ==
    Entry(FreshObj(rr), finisher_id, new_bib,
          IF NotNone(p.racerName) /\ Strip(Val(p.racerName)) # "" THEN Val(p.racerName)
          ELSE roster_racer.racerName,
          PatchedTime(finisher.finishTime, p),
          PatchedOpt(finisher.rank, p.rank),
          PatchedOpt(IF NotNone(roster_racer.gender) /\ Val(roster_racer.gender) # ""
                     THEN roster_racer.gender ELSE None, p.gender),
          PatchedOpt(IF NotNone(roster_racer.team) /\ Val(roster_racer.team) # ""
                     THEN roster_racer.team ELSE None, p.team))

\* local_server.py:871-873: finisher.copy() updated with the patch
UpdatedData(rr, finisher, finisher_id, p) ==
    Entry(FreshObj(rr), finisher_id,
          IF NotNone(p.bibNumber) THEN Val(p.bibNumber) ELSE finisher.bibNumber,
          IF NotNone(p.racerName) THEN Val(p.racerName) ELSE finisher.racerName,
          PatchedTime(finisher.finishTime, p),
          PatchedOpt(finisher.rank, p.rank),
          PatchedOpt(finisher.gender, p.gender),
          PatchedOpt(finisher.team, p.team))

update_finisher(finisher_id, patch) ==
    LET p == NormalizedPatch(patch)
        i == IdIndex(race_results, finisher_id)
        finisher == race_results[i]
        original_bib == finisher.bibNumber
        new_bib == IF NotNone(p.bibNumber) THEN Val(p.bibNumber) ELSE original_bib
        bib_changed == new_bib # original_bib
    IN /\ IF PatchTimeInvalid(patch) \/ i = 0
          THEN /\ race_results' = race_results
               /\ lastCall' = Call("update_finisher", FALSE, "none")
          ELSE IF new_bib \in DOMAIN original_roster
          THEN /\ race_results' = Canon([race_results EXCEPT ![i] =
                     MergedData(race_results, finisher, finisher_id, new_bib,
                                original_roster[new_bib], p)])
               /\ lastCall' = Call("update_finisher", TRUE,
                                   IF bib_changed THEN "reload" ELSE "update")
          ELSE /\ race_results' = Canon([race_results EXCEPT ![i] =
                     UpdatedData(race_results, finisher, finisher_id, p)])
               /\ lastCall' = Call("update_finisher", TRUE, "update")
       /\ client' = Deliver(client, lastCall'.event, race_results', i)
       /\ UNCHANGED <<original_roster, race_clock_state, now, trackVars, hubVars, uploads, stream>>

----------------------------------------------------------------------------
(* Clock handlers (local_server.py:943-1038).  edit_data["time"] is        *)
(* optional, and a number or a string like finishTime.                     *)

\* a start that also clears the manual offset
start_race_clock_ZeroOffset ==
    /\ race_clock_state' = [raceStartTime |-> Some(now), status |-> "running", offset |-> 0]
    /\ lastCall' = Call("start_race_clock", TRUE, "clock_update")
    /\ UNCHANGED <<race_results, original_roster, now, trackVars, hubVars, uploads, stream, client>>

start_race_clock ==
    /\ race_clock_state' = [race_clock_state EXCEPT !.raceStartTime = Some(now),
                                                    !.status = "running"]
    /\ lastCall' = Call("start_race_clock", TRUE, "clock_update")
    /\ UNCHANGED <<race_results, original_roster, now, trackVars, hubVars, uploads, stream, client>>

stop_race_clock ==
    /\ race_clock_state' = [race_clock_state EXCEPT !.status = "stopped"]
    /\ lastCall' = Call("stop_race_clock", TRUE, "clock_update")
    /\ UNCHANGED <<race_results, original_roster, now, trackVars, hubVars, uploads, stream, client>>

\* the elapsed time left out
EditedOffset_Direct(clock, time_ms, current_time) == time_ms

\* local_server.py:999-1006
EditedOffset(clock, time_ms, current_time) ==
    IF NotNone(clock.raceStartTime)
    THEN time_ms - (current_time - Val(clock.raceStartTime)) * 1000
    ELSE time_ms

edit_race_clock(time) ==
    LET raw == Val(time)
        time_ms == IF raw.isStr THEN time_string_to_milliseconds(raw.str) ELSE raw.num
    IN /\ IF IsNone(time) \/ (raw.isStr /\ time_ms < 0)
          THEN /\ race_clock_state' = race_clock_state
               /\ lastCall' = Call("edit_race_clock", FALSE, "none")
          ELSE /\ race_clock_state' = [race_clock_state EXCEPT
                                         !.offset = EditedOffset(race_clock_state, time_ms, now)]
               /\ lastCall' = Call("edit_race_clock", TRUE, "clock_update")
       /\ UNCHANGED <<race_results, original_roster, now, trackVars, hubVars, uploads, stream, client>>

\* a reset that keeps the start time
reset_race_clock_KeepStart ==
    /\ race_clock_state' = [race_clock_state EXCEPT !.status = "stopped", !.offset = 0]
    /\ lastCall' = Call("reset_race_clock", TRUE, "clock_update")
    /\ UNCHANGED <<race_results, original_roster, now, trackVars, hubVars, uploads, stream, client>>

reset_race_clock ==
    /\ race_clock_state' = ClockInit
    /\ lastCall' = Call("reset_race_clock", TRUE, "clock_update")
    /\ UNCHANGED <<race_results, original_roster, now, trackVars, hubVars, uploads, stream, client>>

\* wall-clock time passes
Tick ==
    /\ now < MaxNow
    /\ now' = now + 1
    /\ UNCHANGED <<storeVars, trackVars, hubVars, uploads, stream, client>>

----------------------------------------------------------------------------
(* POST /api/roster/upload: upload_roster (local_server.py:450-614).  A    *)
(* CSV row is a record of strings; "" is an empty cell.                    *)

Row(b, n, g, t) == [bibNumber |-> b, racerName |-> n, gender |-> g, team |-> t]

\* local_server.py:473-475: a dict keyed by bibNumber, in insertion order; a
\* later racer with the same bib replaces the value and keeps the position
ExistingData_None(rr, k, data) == data

RECURSIVE ExistingData(_, _, _)
ExistingData(rr, k, data) ==
    IF k > Len(rr) THEN data
    ELSE LET j == BibIndex(data, rr[k].bibNumber)
         IN ExistingData(rr, k + 1,
                         IF j = 0 THEN Append(data, rr[k]) ELSE [data EXCEPT ![j] = rr[k]])

UpdatedRacer_Keep(racer, row) == racer

\* local_server.py:498-516
UpdatedRacer(racer, row) ==
    [racer EXCEPT
       !.racerName = Strip(row.racerName),
       !.gender = IF row.gender # "" THEN Some(NormalizeGender(row.gender)) ELSE @,
       !.team = IF row.team # "" THEN Some(Strip(row.team)) ELSE @]

\* local_server.py:521-540
CreatedRacer(row) ==
    Entry(0, row.bibNumber, row.bibNumber, Strip(row.racerName), None, None,
          IF row.gender # "" THEN Some(NormalizeGender(row.gender)) ELSE None,
          IF row.team # "" THEN Some(Strip(row.team)) ELSE None)

\* local_server.py:482-547: m is [data, uploaded, updated, errors, seen]
RECURSIVE MergeRows(_, _, _)
MergeRows(rows, k, m) ==
    IF k > Len(rows) THEN m
    ELSE LET row == rows[k]
             j == BibIndex(m.data, row.bibNumber)
         IN IF row.bibNumber = "" \/ row.racerName = ""
            THEN MergeRows(rows, k + 1, [m EXCEPT !.errors = @ + 1])
            ELSE IF row.bibNumber \in m.seen
            THEN MergeRows(rows, k + 1, [m EXCEPT !.errors = @ + 1])
            ELSE IF j # 0
            THEN MergeRows(rows, k + 1,
                           [m EXCEPT !.seen = @ \cup {row.bibNumber},
                                     !.data = [@ EXCEPT ![j] = UpdatedRacer(@, row)],
                                     !.updated = @ + 1])
            ELSE MergeRows(rows, k + 1,
                           [m EXCEPT !.seen = @ \cup {row.bibNumber},
                                     !.data = Append(@, CreatedRacer(row)),
                                     !.uploaded = @ + 1])

\* local_server.py:571-583: (not finished, finish time or inf, numeric bib or inf)
RosterSortKey(x) ==
    <<IF IsNone(x.finishTime) THEN 1 ELSE 0>>
    \o (IF IsNone(x.finishTime) \/ Val(x.finishTime) = 0 THEN <<1, 0>>
        ELSE <<0, Val(x.finishTime)>>)
    \o BibSortKey(x.bibNumber)

RECURSIVE LexLeq(_, _)
LexLeq(a, b) ==
    IF a = <<>> THEN TRUE
    ELSE IF Head(a) # Head(b) THEN Head(a) < Head(b)
    ELSE LexLeq(Tail(a), Tail(b))

InsertByRosterKey(s, e) ==
    LET p == Cardinality({i \in DOMAIN s : LexLeq(RosterSortKey(s[i]), RosterSortKey(e))})
    IN SubSeq(s, 1, p) \o <<e>> \o SubSeq(s, p + 1, Len(s))

RECURSIVE SortByRosterKey(_)
SortByRosterKey(s) ==
    IF s = <<>> THEN <<>> ELSE InsertByRosterKey(SortByRosterKey(Front(s)), Last(s))

\* every dict of the merged data is a copy or a new dict
FreshObjects(data) == [i \in DOMAIN data |-> [data[i] EXCEPT !.obj = i]]

\* a roster that keeps the finished racers too
RosterOf_All(data) ==
    LET LastOf(b) == CHOOSE i \in DOMAIN data : data[i].bibNumber = b
                        /\ \A j \in DOMAIN data : data[j].bibNumber = b => j <= i
    IN [b \in {data[i].bibNumber : i \in DOMAIN data} |->
          RosterEntry(b, data[LastOf(b)].racerName, data[LastOf(b)].gender, data[LastOf(b)].team)]

\* local_server.py:555-565
RosterOf(data) ==
    LET open == {i \in DOMAIN data : IsNone(data[i].finishTime)}
        LastOf(b) == CHOOSE i \in open : data[i].bibNumber = b
                        /\ \A j \in open : data[j].bibNumber = b => j <= i
    IN [b \in {data[i].bibNumber : i \in open} |->
          RosterEntry(b, data[LastOf(b)].racerName, data[LastOf(b)].gender, data[LastOf(b)].team)]

MergedRoster(rr, rows) ==
    MergeRows(rows, 1, [data |-> ExistingData(rr, 1, <<>>), uploaded |-> 0,
                        updated |-> 0, errors |-> 0, seen |-> {}])

upload_roster(rows) ==
    \E m \in {MergedRoster(race_results, rows)} :
       /\ m.uploaded = 0 \/ Len(m.data) <= MaxEntries
       /\ race_results' = Canon(SortByRosterKey(FreshObjects(m.data)))
       /\ original_roster' = RosterOf(m.data)
       /\ lastCall' = [op |-> "upload_roster", ok |-> TRUE, event |-> "reload",
                       created |-> m.uploaded, updated |-> m.updated, errors |-> m.errors,
                       rows |-> rows]
       /\ client' = Deliver(client, "reload", race_results', 0)
       /\ UNCHANGED <<race_clock_state, now, trackVars, hubVars, uploads, stream>>

\* local_server.py:294
max_errors == 10

\* local_server.py:292-294: the frame loop of generate_frames as it starts;
\* open is FALSE once the loop was left by a break
StreamInit == [open |-> TRUE, error_count |-> 0]

----------------------------------------------------------------------------
(* Initial state: the module-level values of local_server.py:170-187 and   *)
(* a processor that has seen no frame.                                     *)

InitStore ==
    /\ race_results = <<>>
    /\ original_roster = <<>>
    /\ race_clock_state = ClockInit
    /\ lastCall = Call("none", TRUE, "none")
    /\ uploads = <<>>
    /\ stream = StreamInit
    /\ client = None

InitTrack ==
    /\ track_history = <<>>
    /\ scheduled = <<>>
    /\ crossings = <<>>
    /\ lingered = {}
    /\ resolved = <<>>

InitHub ==
    /\ active_connections = <<>>
    /\ ws_open = {}
    /\ ws_used = {}
    /\ bcast = <<>>

----------------------------------------------------------------------------
(* The leaderboard store under request handlers: finish records with a     *)
(* direct finish time, roster import, edits, deletes and reorders.         *)

T_0100 == <<"0", "0", ":", "0", "1", ".", "0", "0">>
T_0215 == <<"0", "2", ":", "1", "5", ".", "3", "4">>
T_abc == <<"a", "b", "c">>
T_0000 == <<"0", "0", ":", "0", "0", ".", "0", "0">>

StoreTimes == {NumTime(2000), StrTime(T_0100), StrTime(T_abc)}

StoreFinishData ==
    {FinishData(b, None, Some(ft), None, None, None) :
        b \in {Some(x) : x \in Bibs}, ft \in StoreTimes}
    \cup {FinishData(None, None, Some(NumTime(1000)), None, None, None),
          FinishData(Some("123"), None, None, None, None, None)}

StoreIds == Bibs \cup {"999"}

StoreOrderItems ==
    {OrderItem(i, r) : i \in Bibs, r \in 1..2} \cup {OrderItem("999", 1)}

StoreOrders == SeqsUpTo(StoreOrderItems, MaxOrder)

StoreRows == {Row(b, "Ann", "", "") : b \in Bibs \cup {""}} \cup {Row("123", "", "", "")}

StoreBatches == SeqsUpTo(StoreRows, MaxRows)

StorePatches ==
    {Patch(b, None, ft, None, None, None) :
        b \in {None} \cup {Some(x) : x \in Bibs},
        ft \in {None, Some(NumTime(2000)), Some(StrTime(T_abc))}}

InitStoreSpec ==
    /\ InitStore /\ InitTrack /\ InitHub
    /\ now = 0
    /\ has_callback = FALSE

NextStore ==
    \/ \E fd \in StoreFinishData : update_finish_time(fd)
    \/ \E rows \in StoreBatches : upload_roster(rows)
    \/ \E i \in StoreIds, p \in StorePatches : update_finisher(i, p)
    \/ \E i \in StoreIds : delete_finisher(i)
    \/ \E o \in StoreOrders : reorder_finishers(o)

SpecStore == InitStoreSpec /\ [][NextStore]_vars

----------------------------------------------------------------------------
(* The store under finish records, deletes and reorders only. *)

NextRank ==
    \/ \E fd \in StoreFinishData : update_finish_time(fd)
    \/ \E i \in StoreIds : delete_finisher(i)
    \/ \E o \in StoreOrders : reorder_finishers(o)

SpecRank == InitStoreSpec /\ [][NextRank]_vars

\* C1: the entries with a finish time carry the ranks 1..N, each once, and a
\* lower rank goes with an earlier finish time (equal times: with the earlier
\* list position).
C1_RankInvariant ==
    LET fin == FinishedOf(race_results)
        N == Len(fin)
    IN /\ \A i \in 1..N : NotNone(fin[i].rank) /\ Val(fin[i].rank) \in 1..N
       /\ \A i, j \in 1..N : i # j => fin[i].rank # fin[j].rank
       /\ \A i, j \in 1..N :
            (\/ Val(fin[i].finishTime) < Val(fin[j].finishTime)
             \/ (Val(fin[i].finishTime) = Val(fin[j].finishTime) /\ i < j))
            => Val(fin[i].rank) < Val(fin[j].rank)

\* C4: no two entries of the result list have the same bib number.
C4_OneEntryPerBib ==
    \A i, j \in DOMAIN race_results :
        i # j => race_results[i].bibNumber # race_results[j].bibNumber

----------------------------------------------------------------------------
(* The race clock with finish records that carry a wall-clock time: the    *)
(* operator starts, stops, edits and resets the clock while time passes.   *)

ClockFinishData ==
    {FinishData(Some(b), Some(t), None, None, None, None) : b \in Bibs, t \in 0..MaxNow}

ClockEdits == {None, Some(NumTime(5000)), Some(StrTime(T_abc))}

NextClock ==
    \/ \E fd \in ClockFinishData :
          Val(fd.wallClockTime) <= now /\ update_finish_time(fd)
    \/ start_race_clock
    \/ stop_race_clock
    \/ \E e \in ClockEdits : edit_race_clock(e)
    \/ reset_race_clock
    \/ Tick

SpecClock == InitStoreSpec /\ [][NextClock]_vars

\* C5: a finish record with a wall-clock time that arrives while the clock is
\* not running (or has no start time) fails, broadcasts nothing and leaves the
\* result list and the clock as they were.
C5_StoppedClockRejects ==
    [][\A fd \in ClockFinishData :
          (/\ update_finish_time(fd)
           /\ (race_clock_state.status # "running" \/ IsNone(race_clock_state.raceStartTime)))
          => /\ lastCall'.ok = FALSE
             /\ lastCall'.event = "none"
             /\ race_results' = race_results
             /\ race_clock_state' = race_clock_state
             /\ original_roster' = original_roster]_vars

\* a record was rejected with the clock stopped after a start, entries present
C5_Witness ==
    /\ lastCall.op = "update_finish_time"
    /\ lastCall.ok = FALSE
    /\ race_clock_state.status = "stopped"
    /\ NotNone(race_clock_state.raceStartTime)
    /\ race_results # <<>>

\* C6: a finish record with wall-clock time t handled while the clock runs
\* stores (t - raceStartTime) * 1000 + offset on the entry of its bib.
C6_OfficialTimeStored ==
    [][\A fd \in ClockFinishData :
          (/\ update_finish_time(fd)
           /\ race_clock_state.status = "running"
           /\ NotNone(race_clock_state.raceStartTime))
          => /\ lastCall'.ok = TRUE
             /\ BibIndex(race_results', Val(fd.bibNumber)) # 0
             /\ race_results'[BibIndex(race_results', Val(fd.bibNumber))].finishTime =
                   Some((Val(fd.wallClockTime) - Val(race_clock_state.raceStartTime)) * 1000
                        + race_clock_state.offset)]_vars

\* a record was stored while the clock ran with an offset, after time had passed
C6_Witness ==
    /\ lastCall.op = "update_finish_time"
    /\ lastCall.ok = TRUE
    /\ race_clock_state.status = "running"
    /\ race_clock_state.offset # 0
    /\ now > Val(race_clock_state.raceStartTime)
    /\ \E i \in DOMAIN race_results : NotNone(race_results[i].finishTime)

----------------------------------------------------------------------------
(* The tracker state of VideoInferenceProcessor (video_inference.py).  A   *)
(* frame is the video position with the tracked persons of the frame in    *)
(* box order; a person is [id, x, bib]: the tracker id, the centre of the  *)
(* person box and the bib box found inside it, if any, with the YOLO       *)
(* confidence of the box and what OCR returns for its crop.                *)

TrackerIds == {1, 2}

frame_width == 100
finish_line_fraction == 85
MinBibLen == 2
MaxBibLen == 5
MinOcrConf == 40
MinYoloBibConf == 70
SmartOcrSkipConf == 90

\* video_inference.py:155
finish_zone_start_x == (frame_width * finish_line_fraction) \div 100

\* a placeholder that leaves the prefix out
UnknownBib_TrackerOnly(person_id) == ToString(person_id)

\* f"Unknown-{person_id}" and f"Racer {person_id}" (video_inference.py:273-300)
UnknownBib(person_id) == "Unknown-" \o ToString(person_id)
RacerName(person_id) == "Racer " \o ToString(person_id)

Ocr(text, conf) == [bib_number |-> text, ocr_conf |-> conf]
BibBox(yolo, ocr) == [conf |-> yolo, ocr |-> ocr]
Person(i, x, bib) == [id |-> i, x |-> x, bib |-> bib]
Frame(pos, persons) == [pos |-> pos, persons |-> persons]

\* a history that is created as finished
NewHistory_Finished ==
    [ocr_reads |-> <<>>, last_x_center |-> None, finish_time_ms |-> None,
     finish_wall_time |-> None, final_bib |-> None, final_bib_confidence |-> 0,
     has_finished |-> TRUE]

\* video_inference.py:700-709
NewHistory ==
    [ocr_reads |-> <<>>, last_x_center |-> None, finish_time_ms |-> None,
     finish_wall_time |-> None, final_bib |-> None, final_bib_confidence |-> 0,
     has_finished |-> FALSE]

\* video_inference.py:329-331: a read is <<bib_num, ocr_conf, yolo_conf>>
ValidRead(r) == MinBibLen <= Len(r[1]) /\ Len(r[1]) <= MaxBibLen /\ r[2] > MinOcrConf

ReadScore_Count(r) == 1

\* video_inference.py:337-338: the score of a vote is its OCR confidence
ReadScore(r) == r[2]

OcrReads_UntilFinish(data) == IF data.has_finished THEN <<>> ELSE data.ocr_reads

\* video_inference.py:324
OcrReads(data) == data.ocr_reads

\* video_inference.py:335-340: scores[bib_num] after the loop over filtered_reads
RECURSIVE ScoreOf(_, _, _)
ScoreOf(filtered_reads, bib_num, k) ==
    IF k > Len(filtered_reads) THEN 0
    ELSE (IF filtered_reads[k][1] = bib_num THEN ReadScore(filtered_reads[k]) ELSE 0)
         + ScoreOf(filtered_reads, bib_num, k + 1)

\* video_inference.py:343-344: max(scores, key=scores.get) is the first key of
\* the dict, in insertion order, whose score no other key exceeds
MostLikelyBib(filtered_reads) ==
    LET Score(k) == ScoreOf(filtered_reads, filtered_reads[k][1], 1)
        best == CHOOSE k \in DOMAIN filtered_reads :
                   /\ \A j \in DOMAIN filtered_reads : Score(j) <= Score(k)
                   /\ \A j \in 1..(k - 1) : Score(j) < Score(k)
    IN filtered_reads[best][1]

\* video_inference.py:318-349: tracker id -> [final_bib, score] for the
\* trackers that have a read passing the filter
determine_final_bibs(th) ==
    LET Filtered(t) == SelectSeq(OcrReads(th[t]), ValidRead)
    IN [t \in {u \in DOMAIN th : Filtered(u) # <<>>} |->
           [final_bib |-> MostLikelyBib(Filtered(t)),
            score |-> ScoreOf(Filtered(t), MostLikelyBib(Filtered(t)), 1)]]

\* the results of the resolutions made since the last new read, newest last
Resolve(res, result) ==
    LET all == Append(res, result)
    IN IF Len(all) > MaxCalls THEN Tail(all) ELSE all

NotYetFinished_Always(history) == TRUE

\* video_inference.py:248
NotYetFinished(history) == ~history.has_finished

\* a payload that carries the video position of the crossing
check_finish_line_crossings_VideoTime(s, person_id, racer_position, pos, wall) ==
    LET history == s.th[person_id]
    IN IF NotYetFinished(history) /\ racer_position >= finish_zone_start_x
       THEN LET th1 == [s.th EXCEPT ![person_id] =
                          [history EXCEPT !.finish_time_ms = Some(pos),
                                          !.finish_wall_time = Some(wall),
                                          !.has_finished = TRUE]]
                final_bib_results == determine_final_bibs(th1)
                bib == IF person_id \in DOMAIN final_bib_results
                       THEN final_bib_results[person_id].final_bib
                       ELSE UnknownBib(person_id)
                payload == FinishData(Some(bib), Some(pos), None,
                                      Some(RacerName(person_id)), None, None)
            IN [th |-> th1,
                scheduled |-> IF has_callback THEN Append(s.scheduled, payload)
                              ELSE s.scheduled,
                crossings |-> Append(s.crossings,
                                 [tracker |-> person_id, bib |-> bib,
                                  wall |-> wall, pos |-> pos]),
                lingered |-> s.lingered,
                \* line 263, and line 357 in print_live_leaderboard
                resolved |-> Resolve(Resolve(s.resolved, final_bib_results),
                                     determine_final_bibs(th1))]
       ELSE [s EXCEPT !.lingered =
                IF history.has_finished /\ racer_position >= finish_zone_start_x
                THEN @ \cup {person_id} ELSE @]

\* video_inference.py:235-316, on the frame's running state
\* s = [th, scheduled, crossings, lingered, resolved]
check_finish_line_crossings(s, person_id, racer_position, pos, wall) ==
    LET history == s.th[person_id]
    IN IF NotYetFinished(history) /\ racer_position >= finish_zone_start_x
       THEN LET th1 == [s.th EXCEPT ![person_id] =
                          [history EXCEPT !.finish_time_ms = Some(pos),
                                          !.finish_wall_time = Some(wall),
                                          !.has_finished = TRUE]]
                final_bib_results == determine_final_bibs(th1)
                bib == IF person_id \in DOMAIN final_bib_results
                       THEN final_bib_results[person_id].final_bib
                       ELSE UnknownBib(person_id)
                payload == FinishData(Some(bib), Some(wall), None,
                                      Some(RacerName(person_id)), None, None)
            IN [th |-> th1,
                scheduled |-> IF has_callback THEN Append(s.scheduled, payload)
                              ELSE s.scheduled,
                crossings |-> Append(s.crossings,
                                 [tracker |-> person_id, bib |-> bib,
                                  wall |-> wall, pos |-> pos]),
                lingered |-> s.lingered,
                \* line 263, and line 357 in print_live_leaderboard
                resolved |-> Resolve(Resolve(s.resolved, final_bib_results),
                                     determine_final_bibs(th1))]
       ELSE [s EXCEPT !.lingered =
                IF history.has_finished /\ racer_position >= finish_zone_start_x
                THEN @ \cup {person_id} ELSE @]

\* an OCR step that records a failed read as an empty sample
SmartOcr_KeepsFailures(s, person) ==
    LET history == s.th[person.id]
        bib_box == Val(person.bib)
        ocr == Val(bib_box.ocr)
    IN IF history.final_bib_confidence > SmartOcrSkipConf THEN s
       ELSE IF /\ NotNone(person.bib)
               /\ bib_box.conf > MinYoloBibConf
               /\ NotNone(bib_box.ocr)
               /\ ocr.bib_number # ""
               /\ ocr.ocr_conf # 0
       THEN [s EXCEPT !.th[person.id].ocr_reads =
                          Append(@, <<ocr.bib_number, ocr.ocr_conf, bib_box.conf>>),
                      !.resolved = <<>>]
       ELSE IF NotNone(person.bib)
       THEN [s EXCEPT !.th[person.id].ocr_reads = Append(@, <<"", 0, bib_box.conf>>)]
       ELSE s

\* video_inference.py:716-752: the OCR read of the person's bib is appended
SmartOcr(s, person) ==
    LET history == s.th[person.id]
        bib_box == Val(person.bib)
        ocr == Val(bib_box.ocr)
    IN IF history.final_bib_confidence > SmartOcrSkipConf THEN s
       ELSE IF /\ NotNone(person.bib)
               /\ bib_box.conf > MinYoloBibConf
               /\ NotNone(bib_box.ocr)
               /\ ocr.bib_number # ""
               /\ ocr.ocr_conf # 0
       THEN [s EXCEPT !.th[person.id].ocr_reads =
                          Append(@, <<ocr.bib_number, ocr.ocr_conf, bib_box.conf>>),
                      !.resolved = <<>>]
       ELSE s

\* a pass that reads the bib before it checks the finish line
PersonStep_OcrFirst(s, person, pos, wall) ==
    LET s1 == IF person.id \in DOMAIN s.th THEN s
              ELSE [s EXCEPT !.th = (person.id :> NewHistory) @@ s.th]
        s2 == SmartOcr(s1, person)
    IN check_finish_line_crossings(s2, person.id, person.x, pos, wall)

\* video_inference.py:698-752: one pass of the loop over tracked_persons
PersonStep(s, person, pos, wall) ==
    LET s1 == IF person.id \in DOMAIN s.th THEN s
              ELSE [s EXCEPT !.th = (person.id :> NewHistory) @@ s.th]
        s2 == check_finish_line_crossings(s1, person.id, person.x, pos, wall)
    IN SmartOcr(s2, person)

RECURSIVE FrameLoop(_, _, _, _, _)
FrameLoop(s, persons, k, pos, wall) ==
    IF k > Len(persons) THEN s
    ELSE FrameLoop(PersonStep(s, persons[k], pos, wall), persons, k + 1, pos, wall)

RECURSIVE TotalReads(_, _)
TotalReads(th, ids) ==
    IF ids = {} THEN 0
    ELSE LET t == CHOOSE u \in ids : TRUE
         IN Len(th[t].ocr_reads) + TotalReads(th, ids \ {t})

\* video_inference.py:663-767
process_frame(frame) ==
    \E s \in {FrameLoop([th |-> track_history, scheduled |-> scheduled,
                         crossings |-> crossings, lingered |-> lingered,
                         resolved |-> resolved],
                        frame.persons, 1, frame.pos, now)} :
       /\ TotalReads(s.th, DOMAIN s.th) <= MaxSamples
       /\ track_history' = s.th
       /\ scheduled' = s.scheduled
       /\ crossings' = s.crossings
       /\ lingered' = s.lingered
       /\ resolved' = s.resolved
       /\ UNCHANGED <<storeVars, now, has_callback, hubVars, uploads, stream, client>>

\* video_inference.py:794-854: the final leaderboard resolves every bib again
generate_final_leaderboard ==
    /\ resolved' = Resolve(resolved, determine_final_bibs(track_history))
    /\ UNCHANGED <<storeVars, now, track_history, has_callback, scheduled,
                   crossings, lingered, hubVars, uploads, stream, client>>

\* the outcome of processor.cap.read(), of the processing and of the JPEG
\* encoding of one pass of the frame loop: ret and frame are what read()
\* returns, raises says that read() or _process_frame raised before any
\* history changed, encoded is the flag cv2.imencode returns
Read(ret, frame, raises, encoded) ==
    [ret |-> ret, frame |-> frame, raises |-> raises, encoded |-> encoded]

\* a loop that keeps its error count when a frame is delivered
generate_frames_NoReset(read) ==
    /\ stream.open
    /\ \E s0 \in {[th |-> track_history, scheduled |-> scheduled,
                    crossings |-> crossings, lingered |-> lingered,
                    resolved |-> resolved]} :
       \E out \in
          {IF read.raises
           THEN [s |-> s0, error_count |-> stream.error_count + 1,
                 break |-> stream.error_count + 1 > max_errors]
           ELSE IF ~read.ret
           THEN [s |-> s0, error_count |-> stream.error_count, break |-> TRUE]
           ELSE IF IsNone(read.frame)
           THEN [s |-> s0, error_count |-> stream.error_count, break |-> FALSE]
           ELSE LET frame == Val(read.frame)
                    s1 == FrameLoop(s0, frame.persons, 1, frame.pos, now)
                IN IF ~read.encoded
                   THEN [s |-> s1, error_count |-> stream.error_count + 1,
                         break |-> stream.error_count + 1 > max_errors]
                   ELSE [s |-> s1, error_count |-> stream.error_count, break |-> FALSE]} :
          /\ TotalReads(out.s.th, DOMAIN out.s.th) <= MaxSamples
          /\ track_history' = out.s.th
          /\ scheduled' = out.s.scheduled
          /\ crossings' = out.s.crossings
          /\ lingered' = out.s.lingered
          /\ resolved' = IF out.break
                         THEN Resolve(out.s.resolved, determine_final_bibs(out.s.th))
                         ELSE out.s.resolved
          /\ stream' = [open |-> ~out.break, error_count |-> out.error_count]
    /\ UNCHANGED <<storeVars, now, has_callback, hubVars, uploads, client>>

\* local_server.py:303-391: one pass of the loop of generate_frames, with the
\* final reports of lines 388-390 when the pass leaves the loop
generate_frames(read) ==
    /\ stream.open
    /\ \E s0 \in {[th |-> track_history, scheduled |-> scheduled,
                    crossings |-> crossings, lingered |-> lingered,
                    resolved |-> resolved]} :
       \E out \in
          {IF read.raises
           THEN [s |-> s0, error_count |-> stream.error_count + 1,
                 break |-> stream.error_count + 1 > max_errors]
           ELSE IF ~read.ret
           THEN [s |-> s0, error_count |-> stream.error_count, break |-> TRUE]
           ELSE IF IsNone(read.frame)
           THEN [s |-> s0, error_count |-> stream.error_count, break |-> FALSE]
           ELSE LET frame == Val(read.frame)
                    s1 == FrameLoop(s0, frame.persons, 1, frame.pos, now)
                IN IF ~read.encoded
                   THEN [s |-> s1, error_count |-> stream.error_count + 1,
                         break |-> stream.error_count + 1 > max_errors]
                   ELSE [s |-> s1, error_count |-> 0, break |-> FALSE]} :
          /\ TotalReads(out.s.th, DOMAIN out.s.th) <= MaxSamples
          /\ track_history' = out.s.th
          /\ scheduled' = out.s.scheduled
          /\ crossings' = out.s.crossings
          /\ lingered' = out.s.lingered
          /\ resolved' = IF out.break
                         THEN Resolve(out.s.resolved, determine_final_bibs(out.s.th))
                         ELSE out.s.resolved
          /\ stream' = [open |-> ~out.break, error_count |-> out.error_count]
    /\ UNCHANGED <<storeVars, now, has_callback, hubVars, uploads, client>>

\* local_server.py:1231-1248: the coroutine that result_callback scheduled on
\* the event loop runs update_finish_time with the payload
call_api_endpoint ==
    /\ scheduled # <<>>
    /\ RecordFinish(Head(scheduled))
    /\ scheduled' = Tail(scheduled)
    /\ UNCHANGED <<now, track_history, has_callback, crossings, lingered,
                   resolved, hubVars, uploads, stream>>

\* the frames of one to MaxPersons persons with different tracker ids
FramesOf(positions, persons) ==
    {Frame(pos, ps) : pos \in positions,
        ps \in {q \in SeqsUpTo(persons, MaxPersons) :
                  /\ q # <<>>
                  /\ \A i, j \in DOMAIN q : i # j => q[i].id # q[j].id}}

----------------------------------------------------------------------------
(* The bib vote: frames of one person and resolutions at any time in       *)
(* between.  Tracker 1 comes up to and past the line with its bib read in  *)
(* every way the filter tells apart; tracker 2 stays before the line with  *)
(* a read that passes the filter or one that does not.                     *)

VoteReads ==
    {Ocr("123", 45), Ocr("128", 95), Ocr("128", 40), Ocr("1", 95),
     Ocr("123456", 95), Ocr("128", 0)}

VoteBibs ==
    {None, Some(BibBox(60, Some(Ocr("128", 95)))), Some(BibBox(80, None))}
    \cup {Some(BibBox(80, Some(o))) : o \in VoteReads}

VoteFrames ==
    {Frame(0, <<Person(1, x, b)>>) : x \in {50, 85}, b \in VoteBibs}
    \cup {Frame(0, <<Person(2, 50, Some(BibBox(80, Some(o))))>>) :
              o \in {Ocr("128", 95), Ocr("1", 95)}}

InitVote ==
    /\ InitStore /\ InitTrack /\ InitHub
    /\ now = 0
    /\ has_callback = FALSE

NextVote ==
    \/ \E f \in VoteFrames : process_frame(f)
    \/ generate_final_leaderboard

SpecVote == InitVote /\ [][NextVote]_vars

C7_Valid(reads) ==
    {k \in DOMAIN reads :
        Len(reads[k][1]) >= 2 /\ Len(reads[k][1]) <= 5 /\ reads[k][2] > 40}

RECURSIVE C7_Sum(_, _, _)
C7_Sum(reads, text, ks) ==
    IF ks = {} THEN 0
    ELSE LET k == CHOOSE j \in ks : TRUE
         IN (IF reads[k][1] = text THEN reads[k][2] ELSE 0)
            + C7_Sum(reads, text, ks \ {k})

C7_Example ==
    (1 :> [NewHistory EXCEPT !.ocr_reads =
              <<(<<"123", 90, 80>>), (<<"128", 95, 80>>), (<<"123", 60, 80>>)>>])

\* C7: for every tracker, bib resolution returns a text whose summed OCR
\* confidence over the reads with 2 <= length <= 5 and confidence > 0.4 is
\* the highest, and no bib when no read passes that filter; 123 read with
\* 0.9 and 0.6 beats 128 read with 0.95.
C7_WeightedVote ==
    /\ \A t \in DOMAIN track_history :
          LET reads == track_history[t].ocr_reads
              valid == C7_Valid(reads)
              result == determine_final_bibs(track_history)
          IN IF valid = {} THEN t \notin DOMAIN result
             ELSE /\ t \in DOMAIN result
                  /\ \E k \in valid : reads[k][1] = result[t].final_bib
                  /\ \A k \in valid :
                        C7_Sum(reads, reads[k][1], valid)
                           <= C7_Sum(reads, result[t].final_bib, valid)
    /\ determine_final_bibs(C7_Example)[1].final_bib = "123"

\* two passing reads of 123 with 0.45 each lose to one read of 128 with 0.95
C7_Witness ==
    \E t \in DOMAIN track_history :
        LET reads == track_history[t].ocr_reads
            result == determine_final_bibs(track_history)
        IN /\ Cardinality({k \in C7_Valid(reads) : reads[k][1] = "123"}) = 2
           /\ t \in DOMAIN result
           /\ result[t].final_bib = "128"
           /\ result[t].score = 95

\* C8: the resolutions made with no new read in between all return the same
\* result for every tracker, and a resolution leaves every tracker's reads
\* and finish fields as they were.
C8_ResolveIdempotent ==
    /\ [](\A i, j \in DOMAIN resolved : resolved[i] = resolved[j])
    /\ [](resolved # <<>> => Last(resolved) = determine_final_bibs(track_history))
    /\ [][generate_final_leaderboard => track_history' = track_history]_vars

\* three resolutions in a row, the first before and the others after the
\* tracker finished, with a bib resolved for it
C8_Witness ==
    /\ Len(resolved) = MaxCalls
    /\ \E t \in DOMAIN track_history :
          /\ track_history[t].has_finished
          /\ Len(track_history[t].ocr_reads) >= 2
          /\ t \in DOMAIN Last(resolved)
          /\ t \in lingered

----------------------------------------------------------------------------
(* The finish-line check: trackers move up to and past the finish zone in  *)
(* frames of one or two persons while wall-clock time passes, with or      *)
(* without a result callback.                                              *)

TrackPersons ==
    {Person(i, x, b) : i \in TrackerIds, x \in {50, 90},
        b \in {None, Some(BibBox(80, Some(Ocr("123", 90))))}}

TrackFrames == FramesOf({0, 40}, TrackPersons)

InitTrackSpec ==
    /\ InitStore /\ InitTrack /\ InitHub
    /\ now = 0
    /\ has_callback \in BOOLEAN

NextTrack ==
    \/ \E f \in TrackFrames : process_frame(f)
    \/ Tick

SpecTrack == InitTrackSpec /\ [][NextTrack]_vars

\* C2: a tracker takes the finish transition at most once: has_finished
\* stays true, finish_time_ms and finish_wall_time keep their values, and no
\* further finish payload is handed to the callback for a finished tracker.
C2_FinishOnce ==
    /\ [](\A i, j \in DOMAIN crossings :
             i # j => crossings[i].tracker # crossings[j].tracker)
    /\ [][\A t \in DOMAIN track_history :
             track_history[t].has_finished
             => /\ t \in DOMAIN track_history'
                /\ track_history'[t].has_finished
                /\ track_history'[t].finish_time_ms = track_history[t].finish_time_ms
                /\ track_history'[t].finish_wall_time = track_history[t].finish_wall_time
                /\ \A k \in (Len(scheduled) + 1)..Len(scheduled') :
                      scheduled'[k].racerName # Some(RacerName(t))]_vars

\* a finished tracker was seen past the line again, at a later time, while
\* the callback is set
C2_Witness ==
    /\ has_callback
    /\ \E t \in lingered :
          /\ track_history[t].has_finished
          /\ now > Val(track_history[t].finish_wall_time)
          /\ \E i \in DOMAIN crossings : crossings[i].tracker = t

----------------------------------------------------------------------------
(* The pipeline from the finish-line check to the leaderboard: frames, the *)
(* scheduled calls of update_finish_time, and the operator's clock.  Both  *)
(* trackers can be read as bib 123 before the line; tracker 2 shows no bib *)
(* at the line.                                                            *)

PipelinePersons ==
    {Person(1, x, b) : x \in {50, 90}, b \in {None, Some(BibBox(80, Some(Ocr("123", 90))))}}
    \cup {Person(2, 50, Some(BibBox(80, Some(Ocr("123", 90))))), Person(2, 90, None)}

PipelineFrames == FramesOf({0}, PipelinePersons)

NextPipeline ==
    \/ \E f \in PipelineFrames : process_frame(f)
    \/ call_api_endpoint
    \/ start_race_clock
    \/ stop_race_clock
    \/ Tick

SpecPipeline == InitTrackSpec /\ [][NextPipeline]_vars

\* C3: once every scheduled call has run, each finish transition taken has
\* an entry of the result list with the transition's bib and a finish time.
C3_EveryCrossingRecorded ==
    scheduled = <<>>
    => \A i \in DOMAIN crossings :
          \E k \in DOMAIN race_results :
              /\ race_results[k].bibNumber = crossings[i].bib
              /\ NotNone(race_results[k].finishTime)

----------------------------------------------------------------------------
(* ConnectionManager (src/src/api_backend/local_server.py:126-167 and the  *)
(* legacy src/local_server.py:8-21).  A websocket is a number; a broadcast *)
(* in flight is a record with the position of its list iterator (idx), the *)
(* connection it is sending to (conn) and its disconnected_clients.  The   *)
(* record also notes what the publish did: the connections in the list     *)
(* when it began (start), those of them whose peer stayed and that stayed  *)
(* in the list (live), those that got the message (delivered), those whose *)
(* send raised (raised) and, once done, the list at its end (after).       *)
(* A send to a websocket whose peer is gone raises.                        *)

InFlight(bs) == SelectSeq(bs, LAMBDA b : ~b.done)

Publish(list, open) ==
    [idx |-> 1, conn |-> IF list = <<>> THEN 0 ELSE list[1],
     disconnected_clients |-> <<>>, start |-> Range(list),
     live |-> Range(list) \cap open, delivered |-> {}, raised |-> {},
     done |-> list = <<>>, after |-> list]

\* list.remove(x): the first occurrence goes
RemoveFirst(list, x) ==
    LET i == CHOOSE k \in DOMAIN list : list[k] = x /\ \A j \in 1..(k - 1) : list[j] # x
    IN SubSeq(list, 1, i - 1) \o SubSeq(list, i + 1, Len(list))

\* local_server.py:160-163
RECURSIVE RemoveClients(_, _, _)
RemoveClients(list, disconnected_clients, k) ==
    IF k > Len(disconnected_clients) THEN list
    ELSE RemoveClients(IF disconnected_clients[k] \in Range(list)
                       THEN RemoveFirst(list, disconnected_clients[k]) ELSE list,
                       disconnected_clients, k + 1)

NoLongerLive(bs, ws) ==
    [k \in DOMAIN bs |-> IF bs[k].done THEN bs[k]
                         ELSE [bs[k] EXCEPT !.live = @ \ {ws}]]

\* websocket_endpoint up to manager.connect (local_server.py:130-132, 1044)
connect ==
    LET websocket == Cardinality(ws_used) + 1
    IN /\ Cardinality(ws_used) < MaxSockets
       /\ active_connections' = Append(active_connections, websocket)
       /\ ws_open' = ws_open \cup {websocket}
       /\ ws_used' = ws_used \cup {websocket}
       /\ UNCHANGED <<storeVars, now, trackVars, bcast, uploads, stream, client>>

\* the peer of a websocket goes away
client_gone(websocket) ==
    /\ websocket \in ws_open
    /\ ws_open' = ws_open \ {websocket}
    /\ bcast' = NoLongerLive(bcast, websocket)
    /\ UNCHANGED <<storeVars, now, trackVars, active_connections, ws_used, uploads, stream, client>>

\* websocket_endpoint on WebSocketDisconnect (local_server.py:136-138, 1051-1052)
disconnect(websocket) ==
    /\ websocket \in ws_used \ ws_open
    /\ websocket \in Range(active_connections)
    /\ active_connections' = RemoveFirst(active_connections, websocket)
    /\ bcast' = NoLongerLive(bcast, websocket)
    /\ UNCHANGED <<storeVars, now, trackVars, ws_open, ws_used, uploads, stream, client>>

\* local_server.py:142-151: broadcast up to its first await (or its return)
broadcast_begin ==
    /\ Len(InFlight(bcast)) < MaxPublish
    /\ bcast' = Append(InFlight(bcast), Publish(active_connections, ws_open))
    /\ UNCHANGED <<storeVars, now, trackVars, active_connections, ws_open, ws_used, uploads, stream, client>>

\* the outcome of await connection.send_text (local_server.py:153-158)
Sent(b, open) ==
    IF b.conn \in open
    THEN [b EXCEPT !.delivered = @ \cup {b.conn}]
    ELSE [b EXCEPT !.disconnected_clients = Append(@, b.conn),
                   !.raised = @ \cup {b.conn}]

\* local_server.py:152-166: a send ends; the list iterator yields the element
\* at the next index of the list as it is now, or the loop ends and the
\* clients whose send raised are removed
broadcast_send(k) ==
    LET b == Sent(bcast[k], ws_open)
    IN /\ k \in DOMAIN bcast
       /\ ~bcast[k].done
       /\ IF b.idx + 1 <= Len(active_connections)
          THEN /\ bcast' = [bcast EXCEPT ![k] =
                              [b EXCEPT !.idx = b.idx + 1,
                                        !.conn = active_connections[b.idx + 1]]]
               /\ active_connections' = active_connections
          ELSE /\ active_connections' =
                     RemoveClients(active_connections, b.disconnected_clients, 1)
               /\ bcast' = [bcast EXCEPT ![k] =
                              [b EXCEPT !.done = TRUE, !.after = active_connections']]
       /\ UNCHANGED <<storeVars, now, trackVars, ws_open, ws_used, uploads, stream, client>>

\* src/local_server.py:19-21: the legacy broadcast has no try around the send,
\* an exception of send_text ends the broadcast
legacy_broadcast_send(k) ==
    LET b == Sent(bcast[k], ws_open)
    IN /\ k \in DOMAIN bcast
       /\ ~bcast[k].done
       /\ IF b.raised = {} /\ b.idx + 1 <= Len(active_connections)
          THEN bcast' = [bcast EXCEPT ![k] =
                           [b EXCEPT !.idx = b.idx + 1,
                                     !.conn = active_connections[b.idx + 1]]]
          ELSE bcast' = [bcast EXCEPT ![k] =
                           [b EXCEPT !.disconnected_clients = <<>>,
                                     !.done = TRUE, !.after = active_connections]]
       /\ UNCHANGED <<storeVars, now, trackVars, active_connections, ws_open, ws_used, uploads, stream, client>>

InitHubSpec ==
    /\ InitStore /\ InitTrack /\ InitHub
    /\ now = 0
    /\ has_callback = FALSE

NextHub ==
    \/ connect
    \/ \E ws \in 1..MaxSockets : client_gone(ws)
    \/ \E ws \in 1..MaxSockets : disconnect(ws)
    \/ broadcast_begin
    \/ \E k \in 1..(MaxPublish + 1) : broadcast_send(k)

SpecHub == InitHubSpec /\ [][NextHub]_vars

NextLegacyHub ==
    \/ connect
    \/ \E ws \in 1..MaxSockets : client_gone(ws)
    \/ \E ws \in 1..MaxSockets : disconnect(ws)
    \/ broadcast_begin
    \/ \E k \in 1..(MaxPublish + 1) : legacy_broadcast_send(k)

SpecLegacyHub == InitHubSpec /\ [][NextLegacyHub]_vars

\* C9: when a publish ends, every connection whose send raised in it is out
\* of the active list, and every other connection that was in the list when
\* it began and stayed live has got the message.
C9_RaisingSubscriberRemoved ==
    \A k \in DOMAIN bcast :
        bcast[k].done
        => /\ bcast[k].raised \cap Range(bcast[k].after) = {}
           /\ (bcast[k].live \ bcast[k].raised) \subseteq bcast[k].delivered

\* C10: when a publish ends, every connection that was in the list and live
\* from its beginning to its end has got the message.
C10_DeliversToEveryLive ==
    \A k \in DOMAIN bcast :
        bcast[k].done => bcast[k].live \subseteq bcast[k].delivered

----------------------------------------------------------------------------
(* The roster import next to finish records, bib changes and deletes.  The *)
(* rows of a batch have a missing bib, a missing name, a bib that comes    *)
(* twice, and gender and team cells that are filled or empty.              *)

RosterRows ==
    {Row("123", "Ann", "", ""), Row("128", " Ann", "f", " Red "),
     Row("123", "Cy", "", ""), Row("", "Ann", "", ""), Row("123", "", "", "")}

RosterBatches == SeqsUpTo(RosterRows, MaxRows)

RosterFinishData ==
    {FinishData(Some("123"), None, Some(NumTime(2000)), None, None, None),
     FinishData(Some("128"), None, Some(NumTime(1000)), None, None, None)}

RosterPatches == {Patch(Some("123"), None, None, None, None, None)}

NextRoster ==
    \/ \E rows \in RosterBatches : upload_roster(rows)
    \/ \E fd \in RosterFinishData : update_finish_time(fd)
    \/ \E i \in Bibs, p \in RosterPatches : update_finisher(i, p)

SpecRoster == InitStoreSpec /\ [][NextRoster]_vars

\* the rows of a batch that are taken: both cells filled, and no earlier row
\* with both cells filled has the same bib
RosterAccepted(rows) ==
    {k \in DOMAIN rows :
        /\ rows[k].bibNumber # "" /\ rows[k].racerName # ""
        /\ \A j \in 1..(k - 1) :
              (rows[j].bibNumber # "" /\ rows[j].racerName # "")
              => rows[j].bibNumber # rows[k].bibNumber}

\* C11: importing a batch again right after it was imported gives the same
\* result list, creates no row and updates as many rows as the batch has
\* valid rows (lastCall.rows is the batch of the import that just ran).
C11_ImportIdempotent ==
    [][lastCall'.op = "upload_roster"
       => \A again \in {MergedRoster(race_results', lastCall'.rows)} :
             /\ again.uploaded = 0
             /\ again.updated = Cardinality(RosterAccepted(lastCall'.rows))
             /\ again.errors = Len(lastCall'.rows) - again.updated
             /\ Canon(SortByRosterKey(FreshObjects(again.data))) = race_results']_vars

\* a batch of two valid rows was imported over entries that have its bibs
\* and the values it sets
C11_Witness ==
    /\ lastCall.op = "upload_roster"
    /\ lastCall.created = 0
    /\ lastCall.updated = 2
    /\ Len(race_results) = 2
    /\ \A i \in DOMAIN race_results : race_results[i].racerName = "Ann"
    /\ \E i \in DOMAIN race_results : race_results[i].gender = Some("W")

\* C12: an import leaves the finishTime and rank of every entry that was in
\* the list as they were, keeps each entry whose bib is not in the batch as
\* it was, and gives an entry made for a new bib no finishTime and no rank.
C12_ImportKeepsFinish ==
    [][lastCall'.op = "upload_roster"
       => \A rows \in {lastCall'.rows} :
             /\ \A i \in DOMAIN race_results :
                   \E j \in DOMAIN race_results' :
                       /\ race_results'[j].id = race_results[i].id
                       /\ race_results'[j].bibNumber = race_results[i].bibNumber
                       /\ race_results'[j].finishTime = race_results[i].finishTime
                       /\ race_results'[j].rank = race_results[i].rank
                       /\ (race_results[i].bibNumber \notin
                              {rows[k].bibNumber : k \in DOMAIN rows})
                          => /\ race_results'[j].racerName = race_results[i].racerName
                             /\ race_results'[j].gender = race_results[i].gender
                             /\ race_results'[j].team = race_results[i].team
             /\ \A j \in DOMAIN race_results' :
                   (\A i \in DOMAIN race_results :
                       race_results[i].bibNumber # race_results'[j].bibNumber)
                   => /\ IsNone(race_results'[j].finishTime)
                      /\ IsNone(race_results'[j].rank)]_vars

AcceptedRows(rows) ==
    LET F[k \in 0..Len(rows)] ==
            IF k = 0 THEN <<>>
            ELSE IF k \in RosterAccepted(rows) THEN Append(F[k - 1], rows[k])
            ELSE F[k - 1]
    IN  F[Len(rows)]

HasBib(rr, bib) == \E i \in DOMAIN rr : rr[i].bibNumber = bib

----------------------------------------------------------------------------
(* Finish records with identity fields, on a list that an import may have
   filled (local_server.py:450-773) *)

FinishTimes == {1000, 2000}

FinishIdentities ==
    {<<None, None, None>>,
     <<Some("Cy"), Some("female"), Some(" Red ")>>,
     <<None, Some("x"), Some("")>>}

FinishEvents ==
    {FinishData(Some(b), None, Some(NumTime(t)), idn[1], idn[2], idn[3]) :
        b \in Bibs, t \in FinishTimes, idn \in FinishIdentities}
    \cup {FinishData(None, None, Some(NumTime(1000)), None, None, None)}

FinishRows == {Row("123", "Ann", "", ""), Row("128", " Ann", "f", " Red ")}

FinishBatches == SeqsUpTo(FinishRows, MaxRows)

NextFinish ==
    \/ \E rows \in FinishBatches : upload_roster(rows)
    \/ \E fd \in FinishEvents : update_finish_time(fd)
    \/ \E i \in Bibs : delete_finisher(i)

SpecFinish == InitStoreSpec /\ [][NextFinish]_vars

SameIdentity(a, b) ==
    /\ a.id = b.id /\ a.bibNumber = b.bibNumber /\ a.racerName = b.racerName
    /\ a.gender = b.gender /\ a.team = b.team

\* C14: a finish record for a bib that has an entry writes the record's time
\* into that entry, whether or not it had a time, adds no entry, and leaves
\* id, bibNumber, racerName, gender and team of every entry as they were,
\* whatever name, gender and team the record carries.
C14_FinishOverwrites ==
    [][\A fd \in FinishEvents :
          (/\ NotNone(fd.bibNumber)
           /\ HasBib(race_results, Val(fd.bibNumber))
           /\ update_finish_time(fd))
          => /\ Len(race_results') = Len(race_results)
             /\ \A i \in DOMAIN race_results :
                   /\ SameIdentity(race_results'[i], race_results[i])
                   /\ race_results[i].bibNumber = Val(fd.bibNumber)
                      => race_results'[i].finishTime = Some(Val(fd.finishTime).num)
                   /\ race_results[i].bibNumber # Val(fd.bibNumber)
                      => race_results'[i].finishTime = race_results[i].finishTime]_vars

C14_Witness ==
    /\ lastCall.op = "update_finish_time" /\ lastCall.event = "update"
    /\ Len(race_results) = 2
    /\ \E i \in DOMAIN race_results :
          /\ race_results[i].bibNumber = "128"
          /\ race_results[i].racerName = "Ann"
          /\ race_results[i].gender = Some("W")
          /\ race_results[i].team = Some("Red")
          /\ race_results[i].finishTime = Some(1000)
    /\ \E i \in DOMAIN race_results :
          /\ race_results[i].racerName = "Racer #123"
          /\ race_results[i].finishTime = Some(2000)
          /\ race_results[i].rank = Some(2)

\* C15: a finish record for a bib that has no entry appends one entry, with
\* rank = (number of entries that had a finishTime) + 1, the record's time,
\* the record's name (or "Racer #<bib>"), its gender normalised and its team
\* stripped, and changes no entry that was in the list.
C15_NewFinisherAppended ==
    [][\A fd \in FinishEvents :
          (/\ NotNone(fd.bibNumber)
           /\ ~HasBib(race_results, Val(fd.bibNumber))
           /\ update_finish_time(fd))
          => /\ Len(race_results') = Len(race_results) + 1
             /\ \A i \in DOMAIN race_results : race_results'[i] = race_results[i]
             /\ \A new \in {race_results'[Len(race_results')]} :
                   /\ new.id = Val(fd.bibNumber)
                   /\ new.bibNumber = Val(fd.bibNumber)
                   /\ new.finishTime = Some(Val(fd.finishTime).num)
                   /\ new.rank = Some(Cardinality({i \in DOMAIN race_results :
                                          NotNone(race_results[i].finishTime)}) + 1)
                   /\ new.racerName = IF fd.racerName = Some("Cy") THEN "Cy"
                                      ELSE "Racer #" \o Val(fd.bibNumber)
                   /\ new.gender = IF fd.gender = Some("female") THEN Some("W")
                                   ELSE IF fd.gender = Some("x") THEN Some("X")
                                   ELSE None
                   /\ new.team = IF fd.team = Some(" Red ") THEN Some("Red") ELSE None]_vars

C15_Witness ==
    /\ lastCall.op = "update_finish_time" /\ lastCall.event = "add"
    /\ Len(race_results) = 2
    /\ race_results[1].bibNumber = "123" /\ IsNone(race_results[1].finishTime)
    /\ race_results[2].bibNumber = "128" /\ race_results[2].rank = Some(1)
    /\ race_results[2].racerName = "Cy" /\ race_results[2].gender = Some("W")
    /\ race_results[2].team = Some("Red")

----------------------------------------------------------------------------
(* Clock edits, start, stop and reset (local_server.py:943-1038), checked
   under SpecClock *)

\* the edits of ClockEdits that the handler accepts, with the time they ask for
DesiredMs(e) == Val(e).num

AcceptedEdit(e) == NotNone(e) /\ ~Val(e).isStr

\* C16: an accepted edit to `desired` made while the clock runs sets
\* offset = desired - (now - raceStartTime) * 1000, so the official time of
\* a finish at the instant of the edit is `desired`.
C16_EditWhileRunning ==
    [][\A e \in ClockEdits :
          (/\ AcceptedEdit(e)
           /\ race_clock_state.status = "running"
           /\ NotNone(race_clock_state.raceStartTime)
           /\ edit_race_clock(e))
          => /\ race_clock_state'.offset =
                   DesiredMs(e) - (now - Val(race_clock_state.raceStartTime)) * 1000
             /\ OfficialFinishTime(now, race_clock_state') = DesiredMs(e)
             /\ ResolveFinishTime(FinishData(Some("123"), Some(now), None, None, None, None),
                                  race_clock_state')
                = [ok |-> TRUE, time |-> DesiredMs(e)]]_vars

\* the clock was edited to 5000 one second after its start
C16_Witness ==
    /\ lastCall.op = "edit_race_clock" /\ lastCall.ok
    /\ race_clock_state.status = "running"
    /\ race_clock_state.raceStartTime = Some(0)
    /\ now = 1
    /\ race_clock_state.offset = 4000

\* C17: an accepted edit to `desired` made while the clock is not running
\* (never started, or started and then stopped) sets offset = desired.
C17_EditWhileStopped ==
    [][\A e \in ClockEdits :
          (/\ AcceptedEdit(e)
           /\ race_clock_state.status # "running"
           /\ edit_race_clock(e))
          => race_clock_state'.offset = DesiredMs(e)]_vars

\* C18: an accepted edit, made with the clock running or stopped, leaves the
\* clock in status stopped.
C18_EditStops ==
    [][\A e \in ClockEdits :
          (AcceptedEdit(e) /\ edit_race_clock(e))
          => race_clock_state'.status = "stopped"]_vars

\* C19: start sets raceStartTime to the current time and status to running
\* and leaves offset as it was; stop sets status to stopped and leaves
\* raceStartTime and offset as they were.
C19_StartStopFrame ==
    [][/\ start_race_clock
          => /\ race_clock_state'.raceStartTime = Some(now)
             /\ race_clock_state'.status = "running"
             /\ race_clock_state'.offset = race_clock_state.offset
       /\ stop_race_clock
          => /\ race_clock_state'.status = "stopped"
             /\ race_clock_state'.raceStartTime = race_clock_state.raceStartTime
             /\ race_clock_state'.offset = race_clock_state.offset]_vars

\* the clock was started at time 1 with an offset edited in before
C19_Witness ==
    /\ lastCall.op = "start_race_clock"
    /\ race_clock_state.status = "running"
    /\ race_clock_state.raceStartTime = Some(1)
    /\ now = 1
    /\ race_clock_state.offset = 5000

\* C20: reset gives status stopped, no raceStartTime and offset 0 from any
\* clock state; from then on raceStartTime stays unset until a start, and a
\* finish record with a wall-clock time that arrives while it is unset is
\* rejected and changes nothing.
C20_ResetRejectsFinish ==
    [][/\ reset_race_clock
          => race_clock_state' = [raceStartTime |-> None, status |-> "stopped", offset |-> 0]
       /\ (IsNone(race_clock_state.raceStartTime) /\ ~start_race_clock)
          => IsNone(race_clock_state'.raceStartTime)
       /\ \A fd \in ClockFinishData :
             (IsNone(race_clock_state.raceStartTime) /\ update_finish_time(fd))
             => /\ lastCall'.ok = FALSE
                /\ race_results' = race_results]_vars

\* a record was rejected after the reset of a clock that had recorded finishes
C20_Witness ==
    /\ lastCall.op = "update_finish_time" /\ lastCall.ok = FALSE
    /\ race_clock_state = [raceStartTime |-> None, status |-> "stopped", offset |-> 0]
    /\ \E i \in DOMAIN race_results : NotNone(race_results[i].finishTime)

----------------------------------------------------------------------------
(* PUT /api/results/{id} with patches that carry identity fields, on a list
   and a roster that an import has filled (local_server.py:450-884) *)

RenumberIdentities ==
    {<<None, None, None>>,
     <<Some("Cy"), Some("m"), Some(" Red ")>>,
     <<Some(""), None, None>>}

RenumberPatches ==
    {Patch(Some(b), idn[1], ft, None, idn[2], idn[3]) :
        b \in Bibs,
        ft \in {None, Some(NumTime(2000))},
        idn \in RenumberIdentities}

NextRenumber ==
    \/ \E rows \in FinishBatches : upload_roster(rows)
    \/ \E i \in Bibs, p \in RenumberPatches : update_finisher(i, p)

SpecRenumber == InitStoreSpec /\ [][NextRenumber]_vars

\* the patch asks for a bib that differs from the bib of the entry with this id
ChangesBib(rr, finisher_id, patch) ==
    /\ IdIndex(rr, finisher_id) # 0
    /\ NotNone(patch.bibNumber)
    /\ Val(patch.bibNumber) # rr[IdIndex(rr, finisher_id)].bibNumber

RosterOpt(v) == IF NotNone(v) /\ Val(v) # "" THEN v ELSE None

\* C21: when an accepted patch changes the bib to a bib of the roster, the
\* stored entry keeps its id, has the new bib, the roster's gender and team
\* for it whatever the patch carries, the roster's name unless the patch
\* has a non-blank racerName, and the patch's finishTime if it has one.
C21_RenumberUsesRoster ==
    [][\A i \in Bibs, p \in RenumberPatches :
          (/\ lastCall'.op = "update_finisher"
           /\ ChangesBib(race_results, i, p)
           /\ Val(p.bibNumber) \in DOMAIN original_roster
           /\ ~PatchTimeInvalid(p)
           /\ update_finisher(i, p))
          => \A new \in {race_results'[IdIndex(race_results, i)]} :
             \A roster_racer \in {original_roster[Val(p.bibNumber)]} :
                /\ new.id = i
                /\ new.bibNumber = Val(p.bibNumber)
                /\ new.racerName = IF p.racerName = Some("Cy") THEN "Cy"
                                   ELSE roster_racer.racerName
                /\ new.gender = RosterOpt(roster_racer.gender)
                /\ new.team = RosterOpt(roster_racer.team)
                /\ NotNone(p.finishTime)
                   => new.finishTime = Some(Val(p.finishTime).num)]_vars

----------------------------------------------------------------------------
(* Edits, deletes and reorders of a list that imports have filled
   (local_server.py:450-614, 776-932) *)

NextEdit ==
    \/ \E rows \in FinishBatches : upload_roster(rows)
    \/ \E i \in StoreIds, p \in StorePatches : update_finisher(i, p)
    \/ \E i \in StoreIds : delete_finisher(i)
    \/ \E o \in StoreOrders : reorder_finishers(o)

SpecEdit == InitStoreSpec /\ [][NextEdit]_vars

\* a handler call that failed: nothing stored, nothing published
FailedCall ==
    /\ lastCall'.ok = FALSE
    /\ lastCall'.event = "none"
    /\ race_results' = race_results
    /\ original_roster' = original_roster
    /\ race_clock_state' = race_clock_state
    /\ bcast' = bcast

\* C22: update_finisher and delete_finisher called with an id that no entry
\* has fail, leave the result list, the roster and the clock as they were
\* and publish nothing.
C22_UnknownIdFails ==
    [][/\ \A i \in StoreIds, p \in StorePatches :
             (/\ lastCall'.op = "update_finisher"
              /\ IdIndex(race_results, i) = 0
              /\ update_finisher(i, p))
             => FailedCall
       /\ \A i \in StoreIds :
             (/\ lastCall'.op = "delete_finisher"
              /\ IdIndex(race_results, i) = 0
              /\ delete_finisher(i))
             => FailedCall]_vars

\* a delete of an id that is not in a non-empty list has failed
C22_Witness ==
    /\ lastCall.op = "delete_finisher"
    /\ lastCall.ok = FALSE
    /\ Len(race_results) = 2
    /\ \A i \in DOMAIN race_results : race_results[i].id # "999"

----------------------------------------------------------------------------
(* The legacy server (src/local_server.py:55-76): its result list holds the
   request dicts as they came, with id and the converted finishTime *)

LegacyFinisher(b, ft) == [bibNumber |-> b, finishTime |-> ft]

LegacyFinishers ==
    {LegacyFinisher(b, ft) : b \in Bibs, ft \in {T_0100, T_0215, T_0000, T_abc}}

\* POST /api/results (src/local_server.py:62-76)
add_finisher(finisher_data) ==
    /\ Len(race_results) < MaxEntries
    /\ race_results' = Canon(Append(race_results,
          Entry(FreshObj(race_results), finisher_data.bibNumber, finisher_data.bibNumber,
                DefaultRacerName(finisher_data.bibNumber),
                Some(time_string_to_milliseconds(finisher_data.finishTime)),
                None, None, None)))
    /\ lastCall' = Call("add_finisher", TRUE, "add")
    /\ UNCHANGED <<original_roster, race_clock_state, now, trackVars, hubVars, uploads, stream, client>>

\* GET /api/results (src/local_server.py:55-60): the list itself is sorted
legacy_get_results ==
    /\ race_results' = Canon(SortByFinishTime(race_results))
    /\ lastCall' = Call("get_results", TRUE, "none")
    /\ UNCHANGED <<original_roster, race_clock_state, now, trackVars, hubVars, uploads, stream, client>>

NextLegacy ==
    \/ \E fd \in LegacyFinishers : add_finisher(fd)
    \/ legacy_get_results
    \/ \E i \in Bibs : delete_finisher(i)

SpecLegacy == InitStoreSpec /\ [][NextLegacy]_vars

\* C23: a string that is not MM:SS.cc converts to the sentinel -1, a
\* well-formed one to minutes*60000 + seconds*1000 + centiseconds*10
\* ("02:15.34" to 135340, "00:00.00" to 0, which is not below 0), and the
\* endpoint handed a string that converts to the sentinel fails, stores
\* nothing and publishes nothing.
C23_BadTimeRejected ==
    [][/\ time_string_to_milliseconds(T_abc) = -1
       /\ time_string_to_milliseconds(T_0215) = 135340
       /\ time_string_to_milliseconds(T_0100) = 1000
       /\ time_string_to_milliseconds(T_0000) = 0
       /\ \A fd \in LegacyFinishers :
             (/\ time_string_to_milliseconds(fd.finishTime) < 0
              /\ add_finisher(fd))
             => FailedCall]_vars

\* C24: an accepted edit that changes the bib of an entry, a roster import,
\* a reorder and a delete that removed an entry publish a reload event.
C24_ReloadPublished ==
    [][/\ \A i \in StoreIds, p \in StorePatches :
             (/\ lastCall'.op = "update_finisher"
              /\ ChangesBib(race_results, i, p)
              /\ ~PatchTimeInvalid(p)
              /\ update_finisher(i, p))
             => lastCall'.event = "reload"
       /\ (lastCall'.op \in {"upload_roster", "reorder_finishers", "delete_finisher"}
           /\ lastCall'.ok)
          => lastCall'.event = "reload"]_vars

\* the items of a reorder request whose id is the id of an entry
NamedItems(rr, new_order) ==
    SelectSeq(new_order, LAMBDA item : IdIndex(rr, item.id) # 0)

\* C25: after a reorder the list is the entries that the request names, one
\* slot per entry, in the order of the request, each with the rank the
\* request gives it and otherwise as it was; entries that are not named are
\* gone and items whose id no entry has are skipped.
C25_ReorderExact ==
    [][\A o \in StoreOrders :
          (lastCall'.op = "reorder_finishers" /\ reorder_finishers(o))
          => \A named \in {NamedItems(race_results, o)} :
                /\ Len(race_results') = Len(named)
                /\ \A k \in DOMAIN named :
                      /\ race_results'[k].id = named[k].id
                      /\ race_results'[k].rank = Some(named[k].rank)
                      /\ SameIdentity(race_results'[k],
                                      race_results[IdIndex(race_results, named[k].id)])
                      /\ race_results'[k].finishTime =
                            race_results[IdIndex(race_results, named[k].id)].finishTime
                /\ \A j, k \in DOMAIN race_results' :
                      j # k => race_results'[j].id # race_results'[k].id]_vars

\* C26: listing the results returns the entries that have a finishTime in
\* ascending finishTime order and leaves the stored list (its entries and
\* their order), the roster and the clock as they were, publishing nothing.
C26_ListIsReadOnly ==
    [][legacy_get_results
       => /\ \A j, k \in DOMAIN race_results' :
                j < k => Val(race_results'[j].finishTime) <= Val(race_results'[k].finishTime)
          /\ race_results' = race_results
          /\ original_roster' = original_roster
          /\ race_clock_state' = race_clock_state
          /\ lastCall'.event = "none"]_vars

----------------------------------------------------------------------------
(* The handlers on the event loop (local_server.py:450-1038, 1220-1254).
   A handler runs from one await to the next without any other handler in
   between.  upload_roster waits for the file before it reads the result
   list (line 458); the finish payloads of the frame loop wait on the loop
   until their coroutine runs; every other handler reads and writes the
   store before its first await, the broadcast.  An upload record keeps the
   result list as it was when the request came, which the handler has not
   read. *)

WaitingUploads(us) == SelectSeq(us, LAMBDA u : ~u.done)

\* local_server.py:451-458: the request up to await file.read()
upload_request(rows) ==
    /\ Len(WaitingUploads(uploads)) < MaxUploads
    /\ uploads' = Append(WaitingUploads(uploads),
                         [rows |-> rows, arrived |-> race_results, done |-> FALSE])
    /\ UNCHANGED <<storeVars, now, trackVars, hubVars, stream, client>>

\* an import that merges into the list as it was when the request came
ExistingList_AtArrival(upload, rr) == upload.arrived

\* local_server.py:472-475: the lookup is built after the await
ExistingList(upload, rr) == rr

\* local_server.py:460-588: the handler from the end of file.read() to its
\* broadcast
upload_resume(k) ==
    /\ k \in DOMAIN uploads
    /\ ~uploads[k].done
    /\ \E m \in {MergedRoster(ExistingList(uploads[k], race_results), uploads[k].rows)} :
          /\ m.uploaded = 0 \/ Len(m.data) <= MaxEntries
          /\ race_results' = Canon(SortByRosterKey(FreshObjects(m.data)))
          /\ original_roster' = RosterOf(m.data)
          /\ lastCall' = [op |-> "upload_roster", ok |-> TRUE, event |-> "reload",
                          created |-> m.uploaded, updated |-> m.updated,
                          errors |-> m.errors, rows |-> uploads[k].rows]
          /\ client' = Deliver(client, "reload", race_results', 0)
    /\ uploads' = [uploads EXCEPT ![k].done = TRUE]
    /\ UNCHANGED <<race_clock_state, now, trackVars, hubVars, stream>>

\* local_server.py:1220-1254: the callback of the frame loop hands the
\* payload to the event loop
result_callback(finisher_data) ==
    /\ Len(scheduled) < MaxScheduled
    /\ scheduled' = Append(scheduled, finisher_data)
    /\ UNCHANGED <<storeVars, now, track_history, has_callback, crossings, lingered,
                   resolved, hubVars, uploads, stream, client>>

AsyncBatches ==
    {<<Row("123", "Ann", "", "")>>, <<Row("128", " Ann", "f", " Red ")>>}

AsyncPatches == {Patch(None, None, Some(NumTime(2000)), None, None, None)}

NextAsync ==
    \/ \E rows \in AsyncBatches : upload_request(rows)
    \/ \E k \in 1..MaxUploads : upload_resume(k)
    \/ result_callback(FinishData(Some("123"), Some(now), None, None, None, None))
    \/ call_api_endpoint
    \/ \E p \in AsyncPatches : update_finisher("123", p)
    \/ delete_finisher("123")
    \/ reorder_finishers(<<OrderItem("123", 1)>>)
    \/ start_race_clock
    \/ stop_race_clock

SpecAsync == InitStoreSpec /\ [][NextAsync]_vars

\* C27: handlers interleave only at their awaits.  A step that only parks a
\* handler (an upload waiting for its file, a finish payload waiting on the
\* loop) reads and writes nothing of the store, and the import that resumes
\* merges into the list as it is then: every entry with a finish time still
\* has its id, bib and finish time after it, whatever was recorded while
\* the upload waited, and a row is counted as created only when its bib is
\* not in the list.
C27_HandlersSerial ==
    [][/\ ((Len(scheduled') > Len(scheduled))
           \/ (uploads' # uploads /\ \A k \in DOMAIN uploads' : ~uploads'[k].done))
          => /\ race_results' = race_results
             /\ original_roster' = original_roster
             /\ race_clock_state' = race_clock_state
       /\ \A k \in DOMAIN uploads :
             upload_resume(k)
             => /\ \A i \in DOMAIN race_results :
                      NotNone(race_results[i].finishTime)
                      => \E j \in DOMAIN race_results' :
                            /\ race_results'[j].id = race_results[i].id
                            /\ race_results'[j].bibNumber = race_results[i].bibNumber
                            /\ race_results'[j].finishTime = race_results[i].finishTime
                /\ lastCall'.created =
                      Cardinality({r \in RosterAccepted(uploads[k].rows) :
                                      ~HasBib(race_results, uploads[k].rows[r].bibNumber)})]_vars

\* an import has resumed after a finish for bib 123 was recorded while it
\* waited: the entry has the roster name and its finish time
C27_Witness ==
    /\ lastCall.op = "upload_roster"
    /\ uploads # <<>> /\ uploads[1].done
    /\ ~HasBib(uploads[1].arrived, "123")
    /\ \E i \in DOMAIN race_results :
          /\ race_results[i].bibNumber = "123"
          /\ race_results[i].racerName = "Ann"
          /\ race_results[i].finishTime = Some(0)

----------------------------------------------------------------------------
(* Finish payloads of the frame loop and their notifications
   (local_server.py:142-167, 618-773, 1220-1254).  update_finish_time
   writes the store and then awaits manager.broadcast, which awaits one
   send after the other; a send that does not return leaves that coroutine
   where it is.  A broadcast record carries the message it sends. *)

\* local_server.py:718-723, 769: the broadcast of the handler up to its
\* first await, with the entry of the bib as it is stored
Notify(rr, bib_number) ==
    Publish(active_connections, ws_open)
       @@ [msg |-> [bibNumber |-> bib_number,
                    finishTime |-> rr[BibIndex(rr, bib_number)].finishTime]]

\* a handler that waits for the broadcasts before it to end
call_api_endpoint_InTurn ==
    /\ scheduled # <<>>
    /\ InFlight(bcast) = <<>>
    /\ RecordFinish(Head(scheduled))
    /\ scheduled' = Tail(scheduled)
    /\ bcast' = IF lastCall'.ok
                THEN Append(bcast, Notify(race_results', Val(Head(scheduled).bibNumber)))
                ELSE bcast
    /\ UNCHANGED <<now, track_history, has_callback, crossings, lingered, resolved,
                   active_connections, ws_open, ws_used, uploads, stream>>

\* local_server.py:1231-1248 with 618-773: the scheduled coroutine runs
\* update_finish_time up to the first await of its broadcast
call_api_endpoint_publish ==
    /\ scheduled # <<>>
    /\ RecordFinish(Head(scheduled))
    /\ scheduled' = Tail(scheduled)
    /\ bcast' = IF lastCall'.ok
                THEN Append(bcast, Notify(race_results', Val(Head(scheduled).bibNumber)))
                ELSE bcast
    /\ UNCHANGED <<now, track_history, has_callback, crossings, lingered, resolved,
                   active_connections, ws_open, ws_used, uploads, stream>>

NextIngest ==
    \/ ws_used = {} /\ connect
    \/ \E b \in Bibs :
          /\ Len(bcast) + Len(scheduled) < MaxNotified
          /\ result_callback(FinishData(Some(b), Some(now), None, None, None, None))
    \/ call_api_endpoint_publish
    \/ \E k \in 1..MaxNotified : broadcast_send(k)
    \/ start_race_clock
    \/ Tick

SpecIngest == InitStoreSpec /\ [][NextIngest]_vars

\* C28: a finish payload waiting on the loop can always be handled,
\* whatever broadcasts are waiting for a send to return; the handler stores
\* the finish time and only then begins its notification, which carries the
\* stored time and has been sent to nobody yet.
C28_SlowSubscriber ==
    /\ [](scheduled # <<>> => ENABLED call_api_endpoint_publish)
    /\ [][(call_api_endpoint_publish /\ lastCall'.ok)
          => \A bib \in {Val(Head(scheduled).bibNumber)} :
             \A note \in {Last(bcast')} :
                /\ Len(bcast') = Len(bcast) + 1
                /\ HasBib(race_results', bib)
                /\ NotNone(race_results'[BibIndex(race_results', bib)].finishTime)
                /\ note.msg.bibNumber = bib
                /\ note.msg.finishTime = race_results'[BibIndex(race_results', bib)].finishTime
                /\ note.delivered = {}]_vars

\* the second finish was stored while the notification of the first still
\* waits for its send to the subscriber
C28_Witness ==
    /\ Len(bcast) = 2
    /\ ~bcast[1].done /\ bcast[1].delivered = {} /\ bcast[1].conn # 0
    /\ lastCall.op = "update_finish_time" /\ lastCall.ok
    /\ Len(race_results) = 2
    /\ \A i \in DOMAIN race_results : NotNone(race_results[i].finishTime)

----------------------------------------------------------------------------
(* Video position against wall clock: the same persons in frames read at   *)
(* one of two video positions, the scheduled calls of update_finish_time   *)
(* and the operator's start of the clock.                                  *)

SkewPositions == {0, 40}

\* tracker 1 is read as bib 123 before the line; tracker 2 shows no bib
SkewPersons ==
    {Person(1, 50, Some(BibBox(80, Some(Ocr("123", 90))))), Person(1, 90, None),
     Person(2, 90, None)}

SkewFrames == {Frame(pos, <<q>>) : pos \in SkewPositions, q \in SkewPersons}

\* the server's processor has its callback set (local_server.py:1278-1284)
NextSkew ==
    \/ \E f \in SkewFrames : has_callback /\ process_frame(f)
    \/ call_api_endpoint
    \/ start_race_clock
    \/ Tick

SpecSkew == InitTrackSpec /\ [][NextSkew]_vars

\* the tracker histories without the video position of the finish
NoVideoTime(th) == [t \in DOMAIN th |-> [th[t] EXCEPT !.finish_time_ms = None]]

\* the histories of a run whose finishes were read at other video positions
OtherVideoTime(th) ==
    [t \in DOMAIN th |->
        [th[t] EXCEPT !.finish_time_ms = IF IsNone(@) THEN @ ELSE Some(40 - Val(@))]]

\* C29: the frame step of a run that differs only in video positions (of
\* this frame and of the finishes before it) hands the same payloads to the
\* callback and leaves the same histories but for the video position; each
\* payload carries the wall-clock time of its crossing; and the finish time
\* stored for a payload is the official time of that wall-clock time.
C29_WallClockOnly ==
    /\ [][\A f \in SkewFrames : process_frame(f) =>
            \A p2 \in SkewPositions :
            \A th2 \in {track_history, OtherVideoTime(track_history)} :
            \A s2 \in {FrameLoop([th |-> th2, scheduled |-> scheduled,
                                  crossings |-> crossings, lingered |-> lingered,
                                  resolved |-> resolved],
                                 f.persons, 1, p2, now)} :
               /\ s2.scheduled = scheduled'
               /\ NoVideoTime(s2.th) = NoVideoTime(track_history')
               /\ s2.lingered = lingered'
               /\ s2.resolved = resolved'
               /\ Len(s2.crossings) = Len(crossings')
               /\ \A i \in DOMAIN crossings' :
                     /\ s2.crossings[i].bib = crossings'[i].bib
                     /\ s2.crossings[i].wall = crossings'[i].wall]_vars
    /\ [](\A k \in DOMAIN scheduled :
             \E i \in DOMAIN crossings :
                /\ Some(crossings[i].bib) = scheduled[k].bibNumber
                /\ Some(crossings[i].wall) = scheduled[k].wallClockTime)
    /\ [][(call_api_endpoint /\ lastCall'.ok) =>
            \E k \in DOMAIN race_results' :
               /\ Some(race_results'[k].bibNumber) = Head(scheduled).bibNumber
               /\ race_results'[k].finishTime =
                     Some(OfficialFinishTime(Val(Head(scheduled).wallClockTime),
                                             race_clock_state))]_vars

\* a finish read at video position 40 one second after the start is on
\* the leaderboard with 1000 ms
C29_Witness ==
    /\ scheduled = <<>>
    /\ \E i \in DOMAIN crossings : \E k \in DOMAIN race_results :
          /\ crossings[i].pos = 40 /\ crossings[i].wall = 1
          /\ race_results[k].bibNumber = crossings[i].bib
          /\ race_results[k].finishTime = Some(1000)
          /\ race_results[k].rank = Some(1)

----------------------------------------------------------------------------
(* The frame loop of the video feed: reads that fail, return no frame or   *)
(* raise, frames that do not encode, and frames of one person.             *)

StreamFrames == {Frame(0, <<q>>) : q \in SkewPersons}

StreamReads ==
    {Read(FALSE, None, FALSE, TRUE), Read(TRUE, None, FALSE, TRUE),
     Read(TRUE, None, TRUE, TRUE)}
    \cup {Read(TRUE, Some(f), FALSE, encoded) : f \in StreamFrames, encoded \in BOOLEAN}

NextStream ==
    \/ \E read \in StreamReads : has_callback /\ generate_frames(read)
    \/ Tick

SpecStream == InitTrackSpec /\ [][NextStream]_vars

\* C30: a pass of the frame loop whose read fails leaves the loop running,
\* with the tracker state as it was.
C30_FailedReadSkipped ==
    [][\A read \in StreamReads :
          (~read.ret /\ ~read.raises /\ generate_frames(read))
          => /\ stream'.open
             /\ track_history' = track_history
             /\ resolved' = resolved]_vars

----------------------------------------------------------------------------
(* Invariants of the result list under the five store handlers             *)

\* C31: an entry of the result list has a rank if and only if it has a
\* finish time.
C31_RankIffFinishTime ==
    \A i \in DOMAIN race_results :
       NotNone(race_results[i].rank) <=> NotNone(race_results[i].finishTime)

----------------------------------------------------------------------------
(* The finish event: the server's processor sees tracker 1 with no bib,    *)
(* with a read that passes the filter or with one that does not, before    *)
(* and past the line, alone or next to tracker 2, whose bib reads as 128.  *)

EmitPersons ==
    {Person(1, x, b) : x \in {50, 90},
        b \in {None, Some(BibBox(80, Some(Ocr("123", 90)))),
               Some(BibBox(80, Some(Ocr("1", 95))))}}
    \cup {Person(2, 50, Some(BibBox(80, Some(Ocr("128", 95))))), Person(2, 90, None)}

EmitFrames == FramesOf({0}, EmitPersons)

NextEmit ==
    \/ \E f \in EmitFrames : has_callback /\ process_frame(f)
    \/ Tick

SpecEmit == InitTrackSpec /\ [][NextEmit]_vars

\* the reads of tracker t, in the histories th, that pass the filter
PassingReads(th, t) ==
    IF t \in DOMAIN th
    THEN SelectSeq(th[t].ocr_reads,
                   LAMBDA r : /\ MinBibLen <= Len(r[1]) /\ Len(r[1]) <= MaxBibLen
                              /\ r[2] > MinOcrConf)
    ELSE <<>>

\* tracker t takes the finish transition in this step
Finishes(t) ==
    /\ t \in DOMAIN track_history => ~track_history[t].has_finished
    /\ t \in DOMAIN track_history' /\ track_history'[t].has_finished

----------------------------------------------------------------------------
(* A subscriber's copy of the leaderboard: it fetches the finished list    *)
(* once, and then every handler's broadcast reaches it before the next     *)
(* handler runs.                                                           *)

\* local_server.py:438-447: the subscriber's first GET /api/results
subscribe ==
    /\ IsNone(client)
    /\ client' = Some([i \in DOMAIN get_results(race_results) |->
                          Json(get_results(race_results)[i])])
    /\ UNCHANGED <<storeVars, now, trackVars, hubVars, uploads, stream>>

ReplicaFinishData ==
    {FinishData(Some(b), None, Some(NumTime(t)), None, None, None) :
        b \in Bibs, t \in {1000, 2000}}

ReplicaBatches == {<<Row(b, "Ann", "", "")>> : b \in Bibs}

ReplicaPatches ==
    {Patch(None, n, ft, None, None, None) :
        n \in {None, Some("Bo")}, ft \in {None, Some(NumTime(2000))}}

NextReplica ==
    \/ subscribe
    \/ \E fd \in ReplicaFinishData : update_finish_time(fd)
    \/ \E rows \in ReplicaBatches : upload_roster(rows)
    \/ \E i \in Bibs, p \in ReplicaPatches : update_finisher(i, p)
    \/ \E i \in Bibs : delete_finisher(i)
    \/ \E i \in Bibs : reorder_finishers(<<OrderItem(i, 1)>>)

SpecReplica == InitStoreSpec /\ [][NextReplica]_vars

\* the id, finish time and rank of the finished entries of a list
Standings(list) ==
    {<<list[i].id, list[i].finishTime, list[i].rank>> :
        i \in {j \in DOMAIN list : NotNone(list[j].finishTime)}}

\* C33: the finished entries of the subscriber's copy are those of the
\* store's finished list, each with the same finish time and rank.
C33_ReplicaMatches ==
    NotNone(client) => Standings(Val(client)) = Standings(get_results(race_results))

----------------------------------------------------------------------------
(* The roster after an import *)

\* C34: in the state an import leaves, the keys of original_roster are the
\* bib numbers of the entries of the result list that have no finish time.
C34_RosterIsUnfinished ==
    lastCall.op = "upload_roster"
    => DOMAIN original_roster =
          {race_results[i].bibNumber :
              i \in {j \in DOMAIN race_results : IsNone(race_results[j].finishTime)}}

\* after an import of bib 123 alone: 128, which is finished, is not in the
\* roster, and 123, unfinished, is
C34_Witness ==
    /\ lastCall.op = "upload_roster"
    /\ \A k \in DOMAIN lastCall.rows : lastCall.rows[k].bibNumber = "123"
    /\ \E i \in DOMAIN race_results :
          race_results[i].bibNumber = "128" /\ NotNone(race_results[i].finishTime)
    /\ DOMAIN original_roster = {"123"}

----------------------------------------------------------------------------
(* The roster under the handlers that are not the import: imports of one   *)
(* row, finishes reported with a time, edits, deletes, reorders and the    *)
(* operator's clock.                                                       *)

FramePatches ==
    {Patch(b, None, ft, None, None, None) :
        b \in {None, Some("123")}, ft \in {None, Some(NumTime(2000))}}

NextFrame ==
    \/ \E rows \in ReplicaBatches : upload_roster(rows)
    \/ update_finish_time(FinishData(Some("128"), None, Some(NumTime(1000)), None, None, None))
    \/ \E i \in Bibs, p \in FramePatches : update_finisher(i, p)
    \/ \E i \in Bibs : delete_finisher(i)
    \/ \E i \in Bibs : reorder_finishers(<<OrderItem(i, 1)>>)
    \/ start_race_clock
    \/ stop_race_clock
    \/ edit_race_clock(Some(NumTime(5000)))
    \/ reset_race_clock

SpecFrame == InitStoreSpec /\ [][NextFrame]_vars

\* C35: a step of any handler but upload_roster leaves original_roster, its
\* keys and the fields of its entries, as it was.
C35_RosterFrame ==
    [][lastCall'.op # "upload_roster" => original_roster' = original_roster]_vars

\* bib 123 is in the roster with the name of its row after its entry was
\* deleted from the result list
C35_Witness ==
    /\ lastCall.op = "delete_finisher" /\ lastCall.ok
    /\ "123" \in DOMAIN original_roster
    /\ original_roster["123"].racerName = "Ann"
    /\ \A i \in DOMAIN race_results : race_results[i].bibNumber # "123"

----------------------------------------------------------------------------
(* The frame loop next to the rest of the server: passes that raise, do    *)
(* not encode or deliver a frame, with the clock, a reported finish and a  *)
(* subscriber.                                                             *)

HaltReads ==
    {Read(FALSE, None, FALSE, TRUE), Read(TRUE, None, FALSE, TRUE),
     Read(TRUE, None, TRUE, TRUE)}
    \cup {Read(TRUE, Some(Frame(0, <<Person(1, 50, None)>>)), FALSE, encoded) :
             encoded \in BOOLEAN}

HaltFinish == FinishData(Some("123"), None, Some(NumTime(2000)), None, None, None)

NextHalt ==
    \/ \E read \in HaltReads : has_callback /\ generate_frames(read)
    \/ start_race_clock
    \/ stop_race_clock
    \/ update_finish_time(HaltFinish)
    \/ \E i \in Bibs : delete_finisher(i)
    \/ connect

SpecHalt == InitTrackSpec /\ [][NextHalt]_vars

\* the pass raised or its frame did not encode
IsFrameError(read) == read.raises \/ (read.ret /\ NotNone(read.frame) /\ ~read.encoded)

\* the pass delivered its frame
IsDelivered(read) == ~read.raises /\ read.ret /\ NotNone(read.frame) /\ read.encoded

\* C36: the loop counts the frame errors since the last delivered frame: an
\* error adds one and leaves the loop exactly when the count passes
\* max_errors, a delivered frame sets the count to 0 and stays in the loop;
\* a pass of the loop, leaving it or not, changes nothing of the store, the
\* clock or the connections, and with the loop left the clock and finish
\* handlers can still run.
C36_HaltAfterErrors ==
    /\ [](stream.open => stream.error_count <= max_errors)
    /\ [][\A read \in HaltReads : generate_frames(read) =>
            /\ IsFrameError(read) =>
                  /\ stream'.error_count = stream.error_count + 1
                  /\ stream'.open <=> stream'.error_count <= max_errors
            /\ IsDelivered(read) => stream'.open /\ stream'.error_count = 0
            /\ UNCHANGED <<storeVars, hubVars, client>>]_vars
    /\ [](~stream.open =>
             /\ ENABLED start_race_clock
             /\ ENABLED stop_race_clock
             /\ ENABLED update_finish_time(HaltFinish))

\* the loop was left on its eleventh error in a row, and a finish is on the
\* leaderboard
C36_Witness ==
    /\ ~stream.open
    /\ stream.error_count = max_errors + 1
    /\ race_results # <<>>
    /\ lastCall.op = "update_finish_time"

----------------------------------------------------------------------------
(* OCR failures *)

\* the OCR of the bib region raised or returned no text, or no region was
\* matched to the person (extract_bib_with_easyocr returns None, None)
OcrFailed(person) == IsNone(person.bib) \/ IsNone(Val(person.bib).ocr)

NoBib(persons) == [k \in DOMAIN persons |-> [persons[k] EXCEPT !.bib = None]]

IsPrefix(a, b) == Len(a) <= Len(b) /\ SubSeq(b, 1, Len(a)) = a

\* C37: a frame in which the OCR of every person fails leaves the tracker
\* histories as the same frame with no bib region leaves them, with no
\* sample more for any tracker; and in every step the samples a tracker had
\* are a prefix of the samples it has.
C37_OcrFailureHarmless ==
    /\ [][\A t \in DOMAIN track_history :
             /\ t \in DOMAIN track_history'
             /\ IsPrefix(track_history[t].ocr_reads, track_history'[t].ocr_reads)]_vars
    /\ [][\A f \in VoteFrames :
             ((\A k \in DOMAIN f.persons : OcrFailed(f.persons[k])) /\ process_frame(f))
             => /\ track_history' =
                      FrameLoop([th |-> track_history, scheduled |-> scheduled,
                                 crossings |-> crossings, lingered |-> lingered,
                                 resolved |-> resolved],
                                NoBib(f.persons), 1, f.pos, now).th
                /\ \A t \in DOMAIN track_history' :
                      track_history'[t].ocr_reads =
                         IF t \in DOMAIN track_history
                         THEN track_history[t].ocr_reads ELSE <<>>]_vars

\* tracker 1 has a sample and has then finished: the frames it was seen in
\* after that sample added none
C37_Witness ==
    /\ 1 \in DOMAIN track_history
    /\ Len(track_history[1].ocr_reads) = 1
    /\ track_history[1].has_finished
    /\ 1 \in lingered

----------------------------------------------------------------------------
(* The finish flag and the finish timestamps *)

\* C38: a tracker's has_finished is true exactly when its finish_time_ms
\* and its finish_wall_time are both set; the history made at the first
\* sighting is unfinished, without timestamps and without samples, and that
\* is the history a tracker has after the frame of its first sighting
\* unless the frame finished it or read its bib.
C38_FinishedIffTimestamps ==
    /\ [](\A t \in DOMAIN track_history :
             /\ track_history[t].has_finished
                   <=> (NotNone(track_history[t].finish_time_ms)
                        /\ NotNone(track_history[t].finish_wall_time))
             /\ NotNone(track_history[t].finish_time_ms)
                   <=> NotNone(track_history[t].finish_wall_time))
    /\ [](/\ ~NewHistory.has_finished
          /\ IsNone(NewHistory.finish_time_ms) /\ IsNone(NewHistory.finish_wall_time)
          /\ NewHistory.ocr_reads = <<>>)
    /\ [][\A t \in DOMAIN track_history' \ DOMAIN track_history :
             \A h \in {track_history'[t]} :
                /\ Len(h.ocr_reads) <= 1
                /\ (~h.has_finished /\ h.ocr_reads = <<>>) => h = NewHistory]_vars

\* one tracker has finished and has both timestamps, the other has not and
\* has none
C38_Witness ==
    /\ DOMAIN track_history = {1, 2}
    /\ track_history[1].has_finished
    /\ track_history[1].finish_time_ms = Some(40) /\ track_history[1].finish_wall_time = Some(1)
    /\ track_history[2] = NewHistory

----------------------------------------------------------------------------
(* Entry ids *)

\* C39: no two entries of the result list have the same id, and the
\* handlers that write into an entry, update_finisher and update_finish_time,
\* leave the id of every entry that was there as it was.
C39_IdsUniqueAndStable ==
    /\ [](\A i, j \in DOMAIN race_results :
             race_results[i].id = race_results[j].id => i = j)
    /\ [][lastCall'.op \in {"update_finisher", "update_finish_time"} =>
            \A i \in DOMAIN race_results :
               i \in DOMAIN race_results' /\ race_results'[i].id = race_results[i].id]_vars

----------------------------------------------------------------------------
(* The order of the finish check and the OCR within a frame *)

\* C40: the payloads a frame hands to the callback are those the same frame
\* hands over with its bib regions taken out, so no read of the frame is in
\* the vote of a finish of the frame; and a tracker that finishes in the
\* frame of its first sighting is reported as "Unknown-<id>".
C40_CheckBeforeOcr ==
    [][\A f \in EmitFrames : process_frame(f) =>
          /\ scheduled' =
                FrameLoop([th |-> track_history, scheduled |-> scheduled,
                           crossings |-> crossings, lingered |-> lingered,
                           resolved |-> resolved],
                          NoBib(f.persons), 1, f.pos, now).scheduled
          /\ \A t \in DOMAIN track_history' \ DOMAIN track_history :
                track_history'[t].has_finished
                => \E k \in (Len(scheduled) + 1)..Len(scheduled') :
                      /\ scheduled'[k].racerName = Some("Racer " \o ToString(t))
                      /\ scheduled'[k].bibNumber = Some("Unknown-" \o ToString(t))]_vars

\* tracker 1 was reported as Unknown-1 and is the only tracker seen; the
\* read of its bib, which passes the filter, is in its samples
C40_Witness ==
    /\ DOMAIN track_history = {1}
    /\ scheduled # <<>> /\ scheduled[1].bibNumber = Some("Unknown-1")
    /\ track_history[1].ocr_reads = <<<<"123", 90, 80>>>>

====
